---- MODULE Spec2Model ----
(***************************************************************************)
(* Model of the solana-tx-parser decode-and-reconcile pipeline:            *)
(* TransactionAdapter, InstructionClassifier, TransactionUtils, the        *)
(* per-DEX decoders, get_final_swap and DexParser::parse_all.              *)
(*                                                                         *)
(* Conventions                                                             *)
(*  - Option<T> is a sequence of length 0 (None) or 1 (Some(x)).           *)
(*  - Vec<T> is a sequence; Rust index i is TLA+ index i + 1.              *)
(*  - A byte buffer is a sequence of numbers in 0..255.                    *)
(*  - A formatted string (idx, amount_raw, map keys) is a sequence of      *)
(*    one-character strings; an address is an opaque string.               *)
(*  - A HashMap is a function over its key set; where the code iterates a  *)
(*    HashMap the iteration order is an explicit argument.                 *)
(***************************************************************************)
EXTENDS Integers, Sequences, FiniteSets, TLC

\* The arguments of the call a state machine makes, beside the transaction;
\* among them the build profile where the call's arithmetic can overflow.
VARIABLE args

(***************************************************************************)
(* constants.rs                                                            *)
(***************************************************************************)
TOKEN_PROGRAM_ID == "TokenkegQfeZyiNwAJbNbGKPFXCWuBvf9Ss623VQ5DA"
TOKEN_2022_PROGRAM_ID == "TokenzQdBNbLqP5VEhdkAS6EPFLC1PHnBqCXEpPxuEb"
ASSOCIATED_TOKEN_PROGRAM_ID == "ATokenGPvbdGVxr1b2hvZbsiqW5xWH25efTNsLJA8knL"
COMPUTE_BUDGET_ID == "ComputeBudget111111111111111111111111111111"

NATIVE == "11111111111111111111111111111111"
SOL == "So11111111111111111111111111111111111111112"
USDC == "EPjFWdd5AufqSSqeM2qN1xzybapC8G4wEGGkZwyTDt1v"

\* The other stablecoin mints of `pub mod tokens`.
tokens ==
    [ USDT |-> "Es9vMFrzaCERmJfrF4H2FYD4KCoNkY11McCe8BenwNYB",
      USD1 |-> "USD1ttGY1N17NEEHLmELoaybftRBUSErhqYiQzvEmuB",
      USDG |-> "2u1tszSeqZ3qBWF3uNGPFc8TzMk2tdiwknnRMWGWjGWH",
      PYUSD |-> "2b1kV6DkPAnxd5ixfnxCpjxmKwqjjaYmCZfHsFu24GXo",
      EURC |-> "HzwqbKZw8HxMN6bF2yFZNrht3c2iXXzpKcFu7uBEDKtr",
      USDY |-> "A1KLoBrKBde8Ty9qtNQUtq3C2ortoC3u7twggz7sEto6",
      FDUSD |-> "9zNQRsGLjNKwCUU5Gq5LR8beUCPzQMVMqKAi3SSZh54u" ]

JUPITER == [id |-> "JUP6LkbZbjS1jKKwapdHNy74zcZ3tLUZoi5QNyVTaV4", name |-> "Jupiter"]
JUPITER_DCA == [id |-> "DCA265Vj8a9CEuX1eb1LWRnDT7uK6q1xMipnNyatn23M", name |-> "JupiterDCA"]
JUPITER_LIMIT_ORDER_V2 == [id |-> "j1o2qRpjcyUwEvwtcfhEQefh773ZgjxcVRry7LDqg5X", name |-> "JupiterLimitV2"]
JUPITER_VA == [id |-> "VALaaymxQh2mNy2trH9jUqHT1mTow76wpTcGmSWSwJe", name |-> "JupiterVA"]
RAYDIUM_ROUTE == [id |-> "routeUGWgWzqBWFcrCfv8tritsqukccJPu3q5GPP3xS", name |-> "RaydiumRoute"]
RAYDIUM_V4 == [id |-> "675kPX9MHTjS2zt1qfr1NYHuzeLXfQM9H24wFSUt1Mp8", name |-> "RaydiumV4"]
RAYDIUM_AMM == [id |-> "5quBtoiQqxF9Jv6KYKctB59NT3gtJD2Y65kdnB1Uev3h", name |-> "RaydiumAMM"]
RAYDIUM_CPMM == [id |-> "CPMMoo8L3F4NbTegBCKVNunggL7H1ZpdTHKxQB5qKP1C", name |-> "RaydiumCPMM"]
RAYDIUM_CL == [id |-> "CAMMCzo5YL8w4VFF8KVHrK22GGUsp5VTaW7grrKgrWqK", name |-> "RaydiumCL"]
ORCA == [id |-> "whirLbMiicVdio4qvUfM5KAg6Ct8VwpYzGff3uctyCc", name |-> "Orca"]
METEORA == [id |-> "LBUZKhRxPF3XUpBCjp4YzTKgLccjZhTSDM9YuVaPwxo", name |-> "MeteoraDLMM"]
METEORA_DAMM == [id |-> "Eo7WjKq67rjJQSZxS6z3YkapzY3eMj6Xy8X5EQVn5UaB", name |-> "MeteoraDamm"]
METEORA_DAMM_V2 == [id |-> "cpamdpZCGKUy5JxQXB4dcpGPiikHawvSWAd6mEn1sGG", name |-> "MeteoraDammV2"]
PUMP_FUN == [id |-> "6EF8rrecthR5Dkzon8Nwu78hRvfCKubJ14M5uBEwF6P", name |-> "Pumpfun"]
PUMP_SWAP == [id |-> "pAMMBay6oceH9fJKBRHGP5D4bD4sWpmSwMn52FMfXEA", name |-> "Pumpswap"]

\* The table get_program_name scans, in its order.
ProgramNameTable ==
    << JUPITER, JUPITER_DCA, JUPITER_VA, JUPITER_LIMIT_ORDER_V2, RAYDIUM_ROUTE,
       RAYDIUM_V4, RAYDIUM_AMM, RAYDIUM_CPMM, RAYDIUM_CL,
       [id |-> "LanMV9sAd7wArD4vJFi2qDdfnVhFxYSUg6eADduJ3uj", name |-> "RaydiumLaunchpad"],
       ORCA, METEORA, METEORA_DAMM, METEORA_DAMM_V2,
       [id |-> "dbcij3LWUppWqq96dh6gJWwBifmcGfLSB5D4DuSMaqN", name |-> "MeteoraDBC"],
       PUMP_FUN, PUMP_SWAP,
       [id |-> "MoonCVVNZFSYkqNXP6bxHLPL6QQJiMagDL3qcqUQTrG", name |-> "Moonit"],
       [id |-> "boop8hVGQGqehUK2iVEMEnMrL5RbjywRzHKBmBE7ry4", name |-> "Boopfun"],
       [id |-> "deus4Bvftd5QKcEkE5muQaWGWDoma8GrySvPFrBPjhS", name |-> "Sugar"],
       [id |-> "HEAVENoP2qxoeuF8Dj2oT1GHEnu49U5mJYkdeC8BAX2o", name |-> "Heaven"] >>

get_program_name(program_id) ==
    IF \E i \in DOMAIN ProgramNameTable : ProgramNameTable[i].id = program_id
    THEN LET i == CHOOSE j \in DOMAIN ProgramNameTable :
                    /\ ProgramNameTable[j].id = program_id
                    /\ \A k \in 1..(j - 1) : ProgramNameTable[k].id # program_id
         IN ProgramNameTable[i].name
    ELSE "Unknown"

SYSTEM_PROGRAMS ==
    { COMPUTE_BUDGET_ID, NATIVE, TOKEN_PROGRAM_ID, TOKEN_2022_PROGRAM_ID,
      ASSOCIATED_TOKEN_PROGRAM_ID, "srmqPvymJeFKQ4zGQed1GFppgkRHL9kaELCbyksJtPX" }

SKIP_PROGRAM_IDS == { "pfeeUxB6jkeY1Hxd7CsFCAjcbHA9rWtchMGdZ6VojVZ" }

FEE_ACCOUNTS ==
    { "96gYZGLnJYVFmbjzopPSU6QiEV5fGqZNyN9nmNhvrZU5",
      "HFqU5x63VTqvQss8hp11i4wVV8bD44PvwucfZ2bU7gRe",
      "Cw8CFyM9FkoMi7K7Crf6HNQqf4uEMzpKw6QNghXLvLkY",
      "ADaUMid9yfUytqMBgopwjb2DTLSokTSzL1zt6iGPaS49",
      "DfXygSm4jCyNCybVYYK6DwvWqjKee8pbDmJGcLWNDXjh",
      "ADuUkR4vqLUMWXxW9gh6D6L8pMSawimctcNZ5pGwDcEt",
      "DttWaMuVvTiduZRnguLF7jNxTgiMBZ1hyAumKUiL2KRL",
      "3AVi9Tg9Uo68tJfuvoKvqKNWKkC5wPdSSdeBnizKZ6jT",
      "45ruCyfdRkWpRNGEqWzjCiXRHkZs8WXCLQ67Pnpye7Hp",
      "39azUYFWPz3VHgKCf3VChUwbpURdCHRxjWVowf5jUJjg",
      "FWsW1xNtWscwNmKv6wVsU1iTzRN6wmmk3MjxRP5tT7hz",
      "G5UZAVbAf46s7cKWoyKu8kYTip9DGTpbLZ2qa9Aq69dP",
      "7hTckgnGnLQR6sdH7YkqFTAA7VwTfYFaZ6EhEsU3saCX",
      "9rPYyANsfQZw3DnDmKE3YCQF5E8oD89UXoHn9JFEhJUz",
      "7VtfL8fvgNfhz17qKRMjzQEXgbdpnHHHQRh54R9jP2RJ",
      "AVmoTthdrX6tKt4nDjco2D775W2YK3sDhxPcMmzUAmTY",
      "62qc2CNXwrYqQScmEdiZFFAnJR262PxWEuNQtxfafNgV",
      "JCRGumoE9Qi5BBgULTgdgTLjSgkCMSbF62ZZfGs84JeU",
      "CebN5WGQ4jvEPvsVU4EoHEpgzq1VV7AbicfhtW4xC9iM",
      "AVUCZyuT35YSuj4RH7fwiyPu82Djn2Hfg7y2ND2XcnZH",
      "BUX7s2ef2htTGb2KKoPHWkmzxPj4nTWMWRgs5CSbQxf9",
      "CdQTNULjDiTsvyR5UKjYBMqWvYpxXj6HY4m6atm2hErk" }

\* spl_token_instruction
SPL_TRANSFER == 3
SPL_MINT_TO == 7
SPL_BURN == 8
SPL_TRANSFER_CHECKED == 12
SPL_MINT_TO_CHECKED == 14
SPL_BURN_CHECKED == 15

\* discriminators
JUPITER_ROUTE_EVENT ==
    <<228, 69, 165, 46, 81, 203, 154, 29, 64, 198, 205, 232, 38, 8, 113, 226>>
PUMPFUN_TRADE_EVENT ==
    <<228, 69, 165, 46, 81, 203, 154, 29, 189, 219, 127, 211, 78, 230, 97, 238>>
PUMPSWAP_BUY_EVENT ==
    <<228, 69, 165, 46, 81, 203, 154, 29, 103, 244, 82, 31, 44, 245, 119, 119>>
PUMPSWAP_SELL_EVENT ==
    <<228, 69, 165, 46, 81, 203, 154, 29, 62, 47, 55, 10, 165, 3, 220, 42>>

\* The liquidity discriminators of `pub mod discriminators`.
discriminators ==
    [ RAYDIUM_CREATE |-> <<1>>,
      RAYDIUM_ADD_LIQUIDITY |-> <<3>>,
      RAYDIUM_REMOVE_LIQUIDITY |-> <<4>>,
      RAYDIUM_CPMM_CREATE |-> <<175, 175, 109, 31, 13, 152, 155, 237>>,
      RAYDIUM_CPMM_ADD_LIQUIDITY |-> <<242, 35, 198, 137, 82, 225, 242, 182>>,
      RAYDIUM_CPMM_REMOVE_LIQUIDITY |-> <<183, 18, 70, 156, 148, 109, 161, 34>>,
      METEORA_DLMM_ADD_LIQUIDITY |-> <<181, 157, 89, 67, 143, 182, 52, 72>>,
      METEORA_DLMM_REMOVE_LIQUIDITY |-> <<80, 85, 209, 72, 24, 206, 177, 108>>,
      ORCA_CREATE |-> <<242, 29, 134, 48, 58, 110, 14, 60>>,
      ORCA_CREATE2 |-> <<212, 47, 95, 92, 114, 102, 131, 250>>,
      ORCA_INCREASE_LIQUIDITY |-> <<46, 156, 243, 118, 13, 205, 251, 178>>,
      ORCA_INCREASE_LIQUIDITY2 |-> <<133, 29, 89, 223, 69, 238, 176, 10>>,
      ORCA_DECREASE_LIQUIDITY |-> <<160, 38, 208, 111, 104, 91, 44, 1>>,
      METEORA_DAMM_CREATE |-> <<7, 166, 138, 171, 206, 171, 236, 244>>,
      METEORA_DAMM_ADD |-> <<168, 227, 50, 62, 189, 171, 84, 176>>,
      METEORA_DAMM_REMOVE |-> <<133, 109, 44, 179, 56, 238, 114, 33>>,
      METEORA_DAMM_V2_INIT |-> <<95, 180, 10, 172, 84, 174, 232, 40>>,
      METEORA_DAMM_V2_ADD |-> <<181, 157, 89, 67, 143, 182, 52, 72>>,
      METEORA_DAMM_V2_REMOVE |-> <<80, 85, 209, 72, 24, 206, 177, 108>> ]

(***************************************************************************)
(* Option, strings and bytes                                               *)
(***************************************************************************)
None == <<>>
Some(x) == <<x>>
IsSome(o) == o # <<>>
UnwrapOr(o, d) == IF o # <<>> THEN o[1] ELSE d

\* Rust slice data[a..b] (0-based, b exclusive); the caller checks the length.
Slice(s, a, b) == SubSeq(s, a + 1, b)

Digits == <<"0", "1", "2", "3", "4", "5", "6", "7", "8", "9">>
IsDigit(c) == \E d \in 1..10 : Digits[d] = c
DigitVal(c) == (CHOOSE d \in 1..10 : Digits[d] = c) - 1

RECURSIVE to_string(_)
\* Display for an unsigned integer: its decimal digits.
to_string(n) ==
    IF n < 10 THEN <<Digits[n + 1]>>
    ELSE to_string(n \div 10) \o <<Digits[(n % 10) + 1]>>

RECURSIVE ParseDigits(_, _)
ParseDigits(s, acc) ==
    IF s = <<>> THEN acc
    ELSE ParseDigits(Tail(s), acc * 10 + DigitVal(Head(s)))

\* str::parse::<u128>() / parse::<u32>(): Some(value) for a non-empty run of
\* decimal digits (an optional leading '+' never occurs here), None otherwise.
parse_uint(s) ==
    IF s # <<>> /\ \A i \in DOMAIN s : IsDigit(s[i])
    THEN Some(ParseDigits(s, 0))
    ELSE None

RECURSIVE from_le_bytes(_)
\* uN::from_le_bytes
from_le_bytes(bytes) ==
    IF bytes = <<>> THEN 0
    ELSE Head(bytes) + 256 * from_le_bytes(Tail(bytes))

RECURSIVE to_le_bytes(_, _)
\* The w-byte little-endian encoding of n (the input builder's side).
to_le_bytes(n, w) ==
    IF w = 0 THEN <<>>
    ELSE <<n % 256>> \o to_le_bytes(n \div 256, w - 1)

(***************************************************************************)
(* 64-bit arithmetic.  A u16, u32, u64 or i64 whose full range matters is  *)
(* a wide value: its 16-bit limbs, least significant first (an i64 in      *)
(* two's complement).  Sums and differences are carried limb by limb.      *)
(***************************************************************************)
RECURSIVE wide_from_le_bytes(_)
\* uN::from_le_bytes / i64::from_le_bytes on 2, 4 or 8 bytes.
wide_from_le_bytes(bytes) ==
    IF bytes = <<>> THEN <<>>
    ELSE <<bytes[1] + 256 * bytes[2]>> \o wide_from_le_bytes(Tail(Tail(bytes)))

RECURSIVE wide(_, _)
\* The wide value of n limbs of a TLA+ number v >= 0 (the input builder's side).
wide(v, n) ==
    IF n = 0 THEN <<>> ELSE <<v % 65536>> \o wide(v \div 65536, n - 1)

U64_ZERO == <<0, 0, 0, 0>>
U64_MAX == <<65535, 65535, 65535, 65535>>
I64_MAX == <<65535, 65535, 65535, 32767>>
I64_MIN == <<0, 0, 0, 32768>>

IsZeroWide(x) == \A i \in DOMAIN x : x[i] = 0

\* The sign bit of an i64.
IsNegative(x) == x[Len(x)] >= 32768

RECURSIVE AddLimbs(_, _, _)
\* The limbs of a + b + carry, followed by the carry out of the top limb.
AddLimbs(a, b, carry) ==
    IF a = <<>> THEN <<carry>>
    ELSE LET s == Head(a) + Head(b) + carry
         IN <<s % 65536>> \o AddLimbs(Tail(a), Tail(b), s \div 65536)

RECURSIVE SubLimbs(_, _, _)
\* The limbs of a - b - borrow modulo 2^(16 n), followed by the borrow out.
SubLimbs(a, b, borrow) ==
    IF a = <<>> THEN <<borrow>>
    ELSE LET d == Head(a) - Head(b) - borrow
         IN <<IF d < 0 THEN d + 65536 ELSE d>>
            \o SubLimbs(Tail(a), Tail(b), IF d < 0 THEN 1 ELSE 0)

wrapping_add(a, b) == SubSeq(AddLimbs(a, b, 0), 1, Len(a))
\* Equal operands need no borrow chain.
wrapping_sub(a, b) ==
    IF a = b THEN [i \in 1..Len(a) |-> 0] ELSE SubSeq(SubLimbs(a, b, 0), 1, Len(a))
wrapping_neg(a) == wrapping_sub([i \in DOMAIN a |-> 0], a)

\* u64 `a + b` leaves the 64 bits: the carry out of the top limb.
u64_add_overflows(a, b) == AddLimbs(a, b, 0)[Len(a) + 1] = 1

\* i64 `a - b` leaves the 64 bits: the operands differ in sign and the
\* difference has the sign of b.
i64_sub_overflows(a, b) ==
    /\ IsNegative(a) # IsNegative(b)
    /\ IsNegative(wrapping_sub(a, b)) = IsNegative(b)

RECURSIVE DivRem10(_, _, _)
\* Long division by ten of the limbs 1..i of x with rem carried in from above:
\* [q, r].
DivRem10(x, i, rem) ==
    IF i = 0 THEN [q |-> <<>>, r |-> rem]
    ELSE LET cur == rem * 65536 + x[i]
             Below(rest) == [q |-> Append(rest.q, cur \div 10), r |-> rest.r]
         IN Below(DivRem10(x, i - 1, cur % 10))

RECURSIVE u64_to_string(_)
\* Display for an unsigned wide value: its decimal digits.
u64_to_string(x) ==
    LET Emit(d) == IF IsZeroWide(d.q) THEN <<Digits[d.r + 1]>>
                   ELSE u64_to_string(d.q) \o <<Digits[d.r + 1]>>
    IN Emit(DivRem10(x, Len(x), 0))

\* Display for an i64: a minus sign and the magnitude when the sign bit is set
\* (the magnitude of i64::MIN is its own bit pattern read unsigned).
i64_to_string(x) ==
    IF IsNegative(x) THEN <<"-">> \o u64_to_string(wrapping_neg(x))
    ELSE u64_to_string(x)

RECURSIVE narrow(_)
\* The TLA+ number of an unsigned wide value below 2^31.
narrow(x) == IF x = <<>> THEN 0 ELSE Head(x) + 65536 * narrow(Tail(x))

\* The TLA+ number of an i64 of magnitude below 2^31.
i64_narrow(x) == IF IsNegative(x) THEN 0 - narrow(wrapping_neg(x)) ELSE narrow(x)

\* The build profile: with overflow checks (the dev profile) an integer
\* overflow panics, without them (the release profile) the result wraps.
overflow_checks == args.overflow_checks

\* A panic unwinds the call that raised it; the call's result is this value.
Panic(message) == [panic |-> message]
IsPanic(v) == "panic" \in DOMAIN v

\* base58 is an external bijection between 32-byte values and address
\* strings; the model fixes it on the addresses that occur in its inputs.
AddressBook ==
    << "User", "UserTok", "UserWsol", "PoolTok", "PoolWsol", "Amm1", "Mint1",
       "BondingUser", SOL, USDC, JUPITER.id, RAYDIUM_V4.id, PUMP_FUN.id,
       TOKEN_PROGRAM_ID, COMPUTE_BUDGET_ID, RAYDIUM_CPMM.id >>

\* The 32 bytes that base58-decode from an address of the book.
pubkey_bytes(addr) ==
    to_le_bytes(CHOOSE i \in DOMAIN AddressBook : AddressBook[i] = addr, 32)

\* bs58::encode(bytes).into_string() on 32 bytes.
bs58_encode(bytes) ==
    IF /\ \A i \in 2..Len(bytes) : bytes[i] = 0
       /\ Len(bytes) >= 1 /\ bytes[1] \in DOMAIN AddressBook
    THEN AddressBook[bytes[1]]
    ELSE "UnlistedAddress"

(***************************************************************************)
(* HashMap                                                                 *)
(***************************************************************************)
EmptyMap == [k \in {} |-> 0]
MapInsert(m, k, v) == [x \in (DOMAIN m) \cup {k} |-> IF x = k THEN v ELSE m[x]]
MapGet(m, k) == IF k \in DOMAIN m THEN Some(m[k]) ELSE None
MapRemoveKey(m, k) == [x \in (DOMAIN m) \ {k} |-> m[x]]

\* Every enumeration order of a key set: a HashMap promises none.
Orders(S) ==
    { o \in [1..Cardinality(S) -> S] : \A i, j \in DOMAIN o : i # j => o[i] # o[j] }

(***************************************************************************)
(* transaction_adapter.rs                                                  *)
(***************************************************************************)
extract_account_keys(tx) ==
    IF IsSome(tx.meta) /\ IsSome(tx.meta[1].loaded_addresses)
    THEN tx.account_keys \o tx.meta[1].loaded_addresses[1].writable
                         \o tx.meta[1].loaded_addresses[1].readonly
    ELSE tx.account_keys

\* get_account_key on a key vector (index is the 0-based Rust index).
KeyAt(keys, index) ==
    IF index + 1 \in DOMAIN keys THEN Some(keys[index + 1]) ELSE None

\* The accounts vector of a raw instruction: unresolvable indexes are dropped.
ResolveAccounts(keys, indexes) ==
    LET ok == SelectSeq(indexes, LAMBDA i : IsSome(KeyAt(keys, i)))
    IN [j \in DOMAIN ok |-> keys[ok[j] + 1]]

get_transfer_token_mint(token1, token2) ==
    IF IsSome(token1) /\ IsSome(token2) /\ token1 = token2 THEN token1
    ELSE IF IsSome(token1) /\ token1[1] # SOL THEN token1
    ELSE IF IsSome(token2) /\ token2[1] # SOL THEN token2
    ELSE IF IsSome(token1) THEN token1 ELSE token2

PlaceholderTokenInfo(mint, decimals) ==
    [ mint |-> UnwrapOr(mint, SOL), amount_raw |-> to_string(0),
      decimals |-> UnwrapOr(decimals, 9), destination_owner |-> None ]

\* One post-token-balance entry applied to (spl_token_map, spl_decimals_map).
extract_token_balance(keys, maps, balance) ==
    IF ~IsSome(balance.mint) THEN maps
    ELSE LET mint == balance.mint[1]
             account_key == UnwrapOr(KeyAt(keys, balance.account_index), "")
         IN [ tm |-> IF account_key \in DOMAIN maps.tm THEN maps.tm
                     ELSE MapInsert(maps.tm, account_key,
                            [ mint |-> mint,
                              amount_raw |-> balance.ui_token_amount.amount,
                              decimals |-> balance.ui_token_amount.decimals,
                              destination_owner |-> balance.owner ]),
              dm |-> MapInsert(maps.dm, mint, balance.ui_token_amount.decimals) ]

RECURSIVE extract_token_balances(_, _, _)
extract_token_balances(keys, maps, post) ==
    IF post = <<>> THEN maps
    ELSE extract_token_balances(keys, extract_token_balance(keys, maps, Head(post)),
                                Tail(post))

\* The (source, destination, mint, decimals) a token instruction names, or
\* None when extract_from_compiled_transfer returns early.
CompiledTransferParts(keys, maps, ix) ==
    LET data == ix.data
        program_id == UnwrapOr(KeyAt(keys, ix.program_id_index), "")
        accounts == ResolveAccounts(keys, ix.account_key_indexes)
        dec == IF Len(data) >= 10 THEN Some(data[10]) ELSE None
    IN IF data = <<>> THEN None
       ELSE IF program_id # TOKEN_PROGRAM_ID /\ program_id # TOKEN_2022_PROGRAM_ID
       THEN None
       ELSE IF data[1] = SPL_TRANSFER THEN
            IF Len(accounts) < 2 THEN None
            ELSE Some([ source |-> Some(accounts[1]), destination |-> Some(accounts[2]),
                        mint |-> get_transfer_token_mint(
                                    IF accounts[2] \in DOMAIN maps.tm
                                    THEN Some(maps.tm[accounts[2]].mint) ELSE None,
                                    IF accounts[1] \in DOMAIN maps.tm
                                    THEN Some(maps.tm[accounts[1]].mint) ELSE None),
                        decimals |-> None ])
       ELSE IF data[1] = SPL_TRANSFER_CHECKED THEN
            IF Len(accounts) < 3 THEN None
            ELSE Some([ source |-> Some(accounts[1]), destination |-> Some(accounts[3]),
                        mint |-> Some(accounts[2]), decimals |-> dec ])
       ELSE IF data[1] = SPL_MINT_TO \/ data[1] = SPL_MINT_TO_CHECKED THEN
            IF Len(accounts) < 2 THEN None
            ELSE Some([ source |-> None, destination |-> Some(accounts[2]),
                        mint |-> Some(accounts[1]), decimals |-> dec ])
       ELSE IF data[1] = SPL_BURN \/ data[1] = SPL_BURN_CHECKED THEN
            IF Len(accounts) < 2 THEN None
            ELSE Some([ source |-> Some(accounts[1]), destination |-> None,
                        mint |-> Some(accounts[2]), decimals |-> dec ])
       ELSE None

\* Insert the placeholder for one account unless the map already has it.
InsertPlaceholder(tm, acc, mint, decimals) ==
    IF ~IsSome(acc) \/ acc[1] \in DOMAIN tm THEN tm
    ELSE MapInsert(tm, acc[1], PlaceholderTokenInfo(mint, decimals))

extract_from_compiled_transfer(keys, maps, ix) ==
    LET Apply(parts) ==
            IF ~IsSome(parts) THEN maps
            ELSE [ tm |-> InsertPlaceholder(
                              InsertPlaceholder(maps.tm, parts[1].source,
                                                parts[1].mint, parts[1].decimals),
                              parts[1].destination, parts[1].mint, parts[1].decimals),
                   dm |-> IF IsSome(parts[1].mint) /\ IsSome(parts[1].decimals)
                          THEN MapInsert(maps.dm, parts[1].mint[1], parts[1].decimals[1])
                          ELSE maps.dm ]
    IN Apply(CompiledTransferParts(keys, maps, ix))

RECURSIVE ExtractFromInstructions(_, _, _)
ExtractFromInstructions(keys, maps, ixs) ==
    IF ixs = <<>> THEN maps
    ELSE ExtractFromInstructions(keys,
            extract_from_compiled_transfer(keys, maps, Head(ixs)), Tail(ixs))

RECURSIVE ExtractFromInnerSets(_, _, _)
ExtractFromInnerSets(keys, maps, sets) ==
    IF sets = <<>> THEN maps
    ELSE ExtractFromInnerSets(keys,
            ExtractFromInstructions(keys, maps, Head(sets).instructions), Tail(sets))

extract_token_from_instructions(keys, maps, tx) ==
    ExtractFromInnerSets(keys, ExtractFromInstructions(keys, maps, tx.instructions),
                         UnwrapOr(tx.inner_instructions, <<>>))

post_token_balances(tx) ==
    IF IsSome(tx.meta) THEN tx.meta[1].post_token_balances ELSE None

pre_token_balances(tx) ==
    IF IsSome(tx.meta) THEN tx.meta[1].pre_token_balances ELSE None

pre_balances(tx) == IF IsSome(tx.meta) THEN tx.meta[1].pre_balances ELSE None

post_balances(tx) == IF IsSome(tx.meta) THEN tx.meta[1].post_balances ELSE None

extract_token_info(keys, tx) ==
    LET AddSol(maps) ==
            [ tm |-> IF SOL \in DOMAIN maps.tm THEN maps.tm
                     ELSE MapInsert(maps.tm, SOL, PlaceholderTokenInfo(Some(SOL), Some(9))),
              dm |-> MapInsert(maps.dm, SOL, 9) ]
    IN AddSol(extract_token_from_instructions(keys,
                  extract_token_balances(keys, [tm |-> EmptyMap, dm |-> EmptyMap],
                                         UnwrapOr(post_token_balances(tx), <<>>)),
                  tx))

\* TransactionAdapter::new
NewAdapter(tx) ==
    LET Build(keys, maps) ==
            [ tx |-> tx, account_keys |-> keys,
              spl_token_map |-> maps.tm, spl_decimals_map |-> maps.dm ]
    IN Build(extract_account_keys(tx),
             extract_token_info(extract_account_keys(tx), tx))

get_account_key(adapter, index) == KeyAt(adapter.account_keys, index)

get_account_index(adapter, address) ==
    IF \E i \in DOMAIN adapter.account_keys : adapter.account_keys[i] = address
    THEN Some((CHOOSE i \in DOMAIN adapter.account_keys :
                  /\ adapter.account_keys[i] = address
                  /\ \A j \in 1..(i - 1) : adapter.account_keys[j] # address) - 1)
    ELSE None

get_instruction_program_id(adapter, raw) ==
    UnwrapOr(get_account_key(adapter, raw.program_id_index), "")

signature(adapter) ==
    IF adapter.tx.signatures # <<>> THEN Head(adapter.tx.signatures) ELSE ""

signer(adapter) == UnwrapOr(get_account_key(adapter, 0), "")

signers(adapter) ==
    SubSeq(adapter.account_keys, 1, IF Len(adapter.account_keys) < 1 THEN 0 ELSE 1)

block_time(adapter) == UnwrapOr(adapter.tx.block_time, 0)

slot(adapter) == adapter.tx.slot

get_token_decimals(adapter, mint) ==
    IF mint \in DOMAIN adapter.spl_decimals_map THEN adapter.spl_decimals_map[mint] ELSE 0

fee(adapter) ==
    [ amount |-> to_string(IF IsSome(adapter.tx.meta)
                           THEN UnwrapOr(adapter.tx.meta[1].fee, 0) ELSE 0),
      decimals |-> 9 ]

compute_units(adapter) ==
    IF IsSome(adapter.tx.meta)
    THEN UnwrapOr(adapter.tx.meta[1].compute_units_consumed, 0) ELSE 0

tx_status(adapter) ==
    IF ~IsSome(adapter.tx.meta) THEN "Unknown"
    ELSE IF ~IsSome(adapter.tx.meta[1].err) THEN "Success" ELSE "Failed"

get_token_account_owner(adapter, account_key) ==
    LET post == post_token_balances(adapter.tx)
        index == get_account_index(adapter, account_key)
    IN IF ~IsSome(post) \/ ~IsSome(index) THEN None
       ELSE LET hits == SelectSeq(post[1], LAMBDA b : b.account_index = index[1])
            IN IF hits = <<>> THEN None ELSE Head(hits).owner

(***************************************************************************)
(* instruction_classifier.rs                                               *)
(***************************************************************************)
Classified(adapter, raw, outer_index, inner_index) ==
    [ program_id |-> get_instruction_program_id(adapter, raw),
      accounts |-> ResolveAccounts(adapter.account_keys, raw.account_key_indexes),
      data |-> raw.data,
      outer_index |-> outer_index,
      inner_index |-> inner_index ]

\* add_instruction without the early return on an empty program ID.
add_instruction_unchecked(map, classified) ==
    MapInsert(map, classified.program_id,
        Append(UnwrapOr(MapGet(map, classified.program_id), <<>>), classified))

add_instruction(map, classified) ==
    IF classified.program_id = "" THEN map
    ELSE MapInsert(map, classified.program_id,
            Append(UnwrapOr(MapGet(map, classified.program_id), <<>>), classified))

RECURSIVE ClassifyOuter(_, _, _)
\* The loop over raw_instructions().iter().enumerate(), from position i.
ClassifyOuter(adapter, map, i) ==
    IF i >= Len(adapter.tx.instructions) THEN map
    ELSE ClassifyOuter(adapter,
            add_instruction(map, Classified(adapter, adapter.tx.instructions[i + 1], i, None)),
            i + 1)

RECURSIVE ClassifyInnerSet(_, _, _, _)
ClassifyInnerSet(adapter, map, set, j) ==
    IF j >= Len(set.instructions) THEN map
    ELSE ClassifyInnerSet(adapter,
            add_instruction(map, Classified(adapter, set.instructions[j + 1], set.index, Some(j))),
            set, j + 1)

RECURSIVE ClassifyInner(_, _, _)
ClassifyInner(adapter, map, sets) ==
    IF sets = <<>> THEN map
    ELSE ClassifyInner(adapter, ClassifyInnerSet(adapter, map, Head(sets), 0), Tail(sets))

\* InstructionClassifier::new: the instruction_map.
classify_instructions(adapter) ==
    ClassifyInner(adapter, ClassifyOuter(adapter, EmptyMap, 0),
                  UnwrapOr(adapter.tx.inner_instructions, <<>>))

get_instructions(instruction_map, program_id) ==
    UnwrapOr(MapGet(instruction_map, program_id), <<>>)

\* The keys with the system-program and skip-list exclusion left out.
get_all_program_ids_unfiltered(instruction_map, key_order) == key_order

\* instruction_map.keys().filter(..).collect(): key_order is the order in
\* which this HashMap enumerates its keys.
get_all_program_ids(instruction_map, key_order) ==
    SelectSeq(key_order, LAMBDA id : id \notin SYSTEM_PROGRAMS /\ id \notin SKIP_PROGRAM_IDS)

(***************************************************************************)
(* transaction_utils.rs                                                    *)
(***************************************************************************)
DexInfoDefault == [program_id |-> None, amm |-> None, route |-> None]

\* The programs get_dex_info recognises, with the DexInfo it returns for each.
DexInfoFor(id) ==
    IF id = JUPITER.id
    THEN Some([program_id |-> Some(id), route |-> Some(JUPITER.name), amm |-> None])
    ELSE IF id = JUPITER_DCA.id
    THEN Some([program_id |-> Some(id), route |-> Some(JUPITER_DCA.name), amm |-> None])
    ELSE IF id = RAYDIUM_V4.id
    THEN Some([program_id |-> Some(id), route |-> None, amm |-> Some(RAYDIUM_V4.name)])
    ELSE IF id = METEORA.id
    THEN Some([program_id |-> Some(id), route |-> None, amm |-> Some(METEORA.name)])
    ELSE IF id = ORCA.id
    THEN Some([program_id |-> Some(id), route |-> None, amm |-> Some(ORCA.name)])
    ELSE IF id = PUMP_FUN.id
    THEN Some([program_id |-> Some(id), route |-> None, amm |-> Some(PUMP_FUN.name)])
    ELSE IF id = PUMP_SWAP.id
    THEN Some([program_id |-> Some(id), route |-> None, amm |-> Some(PUMP_SWAP.name)])
    ELSE None

get_dex_info(instruction_map, key_order) ==
    LET program_ids == get_all_program_ids(instruction_map, key_order)
        known == SelectSeq(program_ids, LAMBDA id : IsSome(DexInfoFor(id)))
    IN IF program_ids = <<>> THEN DexInfoDefault
       ELSE IF known # <<>> THEN DexInfoFor(Head(known))[1]
       ELSE [program_id |-> Some(Head(program_ids)), amm |-> None, route |-> None]

OuterIdx(outer_index) == to_string(outer_index)

InnerIdx(outer_index, inner_index) ==
    to_string(outer_index) \o <<"-">> \o to_string(inner_index)

\* format!("{}:{}", program_id, outer_index) and format!("{}:{}-{}", ..).
GroupKey(program_id, outer_index, inner_index) ==
    IF IsSome(inner_index)
    THEN <<program_id, ":">> \o InnerIdx(outer_index, inner_index[1])
    ELSE <<program_id, ":">> \o OuterIdx(outer_index)

TokenMintOf(adapter, account) ==
    IF account \in DOMAIN adapter.spl_token_map
    THEN Some(adapter.spl_token_map[account].mint) ELSE None

parse_compiled_action(adapter, raw, idx) ==
    LET data == raw.data
        program_id == get_instruction_program_id(adapter, raw)
        accounts == ResolveAccounts(adapter.account_keys, raw.account_key_indexes)
    IN IF data = <<>> THEN None
       ELSE IF program_id = TOKEN_PROGRAM_ID /\ data[1] = SPL_TRANSFER THEN
            IF Len(accounts) < 2 \/ Len(data) < 9 THEN None
            ELSE LET amount == from_le_bytes(Slice(data, 1, 9))
                     source == accounts[1]
                     destination == accounts[2]
                     mint == get_transfer_token_mint(TokenMintOf(adapter, destination),
                                                     TokenMintOf(adapter, source))
                 IN IF ~IsSome(mint) THEN None
                    ELSE Some([ transfer_type |-> "transfer",
                                program_id |-> program_id,
                                info |-> [ authority |-> KeyAt(accounts, 2),
                                           destination |-> destination,
                                           destination_owner |->
                                               get_token_account_owner(adapter, accounts[2]),
                                           mint |-> mint[1],
                                           source |-> source,
                                           token_amount |->
                                               [ amount |-> to_string(amount),
                                                 decimals |-> get_token_decimals(adapter, mint[1]) ] ],
                                idx |-> idx,
                                is_fee |-> None ])
       ELSE IF /\ program_id \in {TOKEN_PROGRAM_ID, TOKEN_2022_PROGRAM_ID}
               /\ data[1] = SPL_TRANSFER_CHECKED THEN
            IF Len(accounts) < 3 \/ Len(data) < 10 THEN None
            ELSE Some([ transfer_type |-> "transferChecked",
                        program_id |-> program_id,
                        info |-> [ authority |-> KeyAt(accounts, 3),
                                   destination |-> accounts[3],
                                   destination_owner |->
                                       get_token_account_owner(adapter, accounts[3]),
                                   mint |-> accounts[2],
                                   source |-> accounts[1],
                                   token_amount |->
                                       [ amount |-> to_string(from_le_bytes(Slice(data, 1, 9))),
                                         decimals |-> data[10] ] ],
                        idx |-> idx,
                        is_fee |-> None ])
       ELSE None

\* Fee tagging that looks at the destination account only.
TagFeeDestinationOnly(t) ==
    IF t.info.destination \in FEE_ACCOUNTS THEN [t EXCEPT !.is_fee = Some(TRUE)] ELSE t

\* The fee tagging both loops of get_transfer_actions apply to a record.
TagFee(t) ==
    IF \/ t.info.destination \in FEE_ACCOUNTS
       \/ (IsSome(t.info.destination_owner) /\ t.info.destination_owner[1] \in FEE_ACCOUNTS)
    THEN [t EXCEPT !.is_fee = Some(TRUE)]
    ELSE t

PushAction(actions, group_key, t) ==
    MapInsert(actions, group_key, Append(UnwrapOr(MapGet(actions, group_key), <<>>), t))

RECURSIVE TransferActionsOuter(_, _, _)
TransferActionsOuter(adapter, actions, outer_index) ==
    IF outer_index >= Len(adapter.tx.instructions) THEN actions
    ELSE LET raw == adapter.tx.instructions[outer_index + 1]
             Push(program_id, transfer) ==
                 IF program_id \in SYSTEM_PROGRAMS \/ ~IsSome(transfer) THEN actions
                 ELSE PushAction(actions, GroupKey(program_id, outer_index, None),
                                 TagFee(transfer[1]))
         IN TransferActionsOuter(adapter,
                Push(get_instruction_program_id(adapter, raw),
                     parse_compiled_action(adapter, raw, OuterIdx(outer_index))),
                outer_index + 1)

RECURSIVE TransferActionsInnerSet(_, _, _, _)
TransferActionsInnerSet(adapter, actions, set, inner_index) ==
    IF inner_index >= Len(set.instructions) THEN actions
    ELSE LET outer_index == set.index
             outer_program_id ==
                 IF outer_index + 1 \in DOMAIN adapter.tx.instructions
                 THEN get_instruction_program_id(adapter, adapter.tx.instructions[outer_index + 1])
                 ELSE ""
             Push(transfer) ==
                 IF ~IsSome(transfer) THEN actions
                 ELSE PushAction(actions,
                                 GroupKey(outer_program_id, outer_index, Some(inner_index)),
                                 TagFee(transfer[1]))
         IN TransferActionsInnerSet(adapter,
                Push(parse_compiled_action(adapter, set.instructions[inner_index + 1],
                                           InnerIdx(outer_index, inner_index))),
                set, inner_index + 1)

RECURSIVE TransferActionsInner(_, _, _)
TransferActionsInner(adapter, actions, sets) ==
    IF sets = <<>> THEN actions
    ELSE TransferActionsInner(adapter,
            TransferActionsInnerSet(adapter, actions, Head(sets), 0), Tail(sets))

get_transfer_actions(adapter) ==
    TransferActionsInner(adapter, TransferActionsOuter(adapter, EmptyMap, 0),
                         UnwrapOr(adapter.tx.inner_instructions, <<>>))

get_transfers_for_instruction(transfer_actions, program_id, outer_index, inner_index) ==
    SelectSeq(UnwrapOr(MapGet(transfer_actions, GroupKey(program_id, outer_index, inner_index)), <<>>),
              LAMBDA t : t.transfer_type \in {"transfer", "transferChecked"})

(***************************************************************************)
(* utils.rs                                                                *)
(***************************************************************************)
is_known_stable(mint) ==
    mint \in { USDC, tokens.USDT, tokens.USD1, tokens.USDG, tokens.PYUSD, tokens.EURC,
               tokens.USDY, tokens.FDUSD }

get_trade_type(in_mint, out_mint) ==
    IF in_mint = SOL THEN "Buy"
    ELSE IF out_mint = SOL THEN "Sell"
    ELSE IF is_known_stable(in_mint) THEN "Buy"
    ELSE "Sell"

RECURSIVE SplitFrom(_, _, _)
\* str::split(sep): cur is the segment being collected.
SplitFrom(s, sep, cur) ==
    IF s = <<>> THEN <<cur>>
    ELSE IF Head(s) = sep THEN <<cur>> \o SplitFrom(Tail(s), sep, <<>>)
    ELSE SplitFrom(Tail(s), sep, Append(cur, Head(s)))

split(s, sep) == SplitFrom(s, sep, <<>>)

\* The (main, sub) pair sort_by_idx compares.
IdxKey(idx) ==
    LET parts == split(idx, "-")
    IN << IF Len(parts) >= 1 THEN UnwrapOr(parse_uint(parts[1]), 0) ELSE 0,
          IF Len(parts) >= 2 THEN UnwrapOr(parse_uint(parts[2]), 0) ELSE 0 >>

RECURSIVE StrLeq(_, _)
\* a <= b as strings of '-' and digits: byte by byte, '-' below every digit.
StrLeq(a, b) ==
    LET Rank(c) == IF c = "-" THEN 0 ELSE DigitVal(c) + 1
    IN IF a = <<>> THEN TRUE
       ELSE IF b = <<>> THEN FALSE
       ELSE IF Head(a) = Head(b) THEN StrLeq(Tail(a), Tail(b))
       ELSE Rank(Head(a)) < Rank(Head(b))

\* The idx strings compared as strings.
IdxStringLeq(a, b) == StrLeq(a, b)

\* a_main.cmp(&b_main).then(a_sub.cmp(&b_sub)) is Less or Equal.
IdxLeq(a, b) ==
    LET ka == IdxKey(a)
        kb == IdxKey(b)
    IN ka[1] < kb[1] \/ (ka[1] = kb[1] /\ ka[2] <= kb[2])

RECURSIVE InsertStable(_, _)
\* Place x behind every element that does not compare greater (stable).
InsertStable(sorted, x) ==
    IF sorted = <<>> THEN <<x>>
    ELSE IF IdxLeq(Head(sorted)[2], x[2]) THEN <<Head(sorted)>> \o InsertStable(Tail(sorted), x)
    ELSE <<x>> \o sorted

RECURSIVE StableSort(_, _)
StableSort(done, rest) ==
    IF rest = <<>> THEN done
    ELSE StableSort(InsertStable(done, Head(rest)), Tail(rest))

\* items is a sequence of <<item, idx>> pairs; slice::sort_by is stable.
sort_by_idx(items) ==
    IF Len(items) <= 1 THEN [i \in DOMAIN items |-> items[i][1]]
    ELSE LET sorted == StableSort(<<>>, items)
         IN [i \in DOMAIN sorted |-> sorted[i][1]]

RECURSIVE SumInputAnyMint(_, _)
\* The accumulation with the mint comparison left out.
SumInputAnyMint(sorted, mint) ==
    IF sorted = <<>> THEN 0
    ELSE UnwrapOr(parse_uint(Head(sorted).input_token.amount_raw), 0)
         + SumInputAnyMint(Tail(sorted), mint)

RECURSIVE SumInput(_, _)
\* The u128 accumulation of input legs whose mint is `mint`.
SumInput(sorted, mint) ==
    IF sorted = <<>> THEN 0
    ELSE (IF Head(sorted).input_token.mint = mint
          THEN UnwrapOr(parse_uint(Head(sorted).input_token.amount_raw), 0) ELSE 0)
         + SumInput(Tail(sorted), mint)

RECURSIVE SumOutput(_, _)
SumOutput(sorted, mint) ==
    IF sorted = <<>> THEN 0
    ELSE (IF Head(sorted).output_token.mint = mint
          THEN UnwrapOr(parse_uint(Head(sorted).output_token.amount_raw), 0) ELSE 0)
         + SumOutput(Tail(sorted), mint)

RECURSIVE CollectPools(_, _)
CollectPools(sorted, pools) ==
    IF sorted = <<>> THEN pools
    ELSE LET t == Head(sorted)
         IN CollectPools(Tail(sorted),
                IF t.pool # <<>> /\ ~(\E i \in DOMAIN pools : pools[i] = t.pool[1])
                THEN Append(pools, t.pool[1]) ELSE pools)

get_final_swap(trades, dex_amm, dex_route) ==
    LET Merge(sorted, input_trade, output_trade) ==
            Some([ user |-> input_trade.user,
                   trade_type |-> get_trade_type(input_trade.input_token.mint,
                                                 output_trade.output_token.mint),
                   pool |-> CollectPools(sorted, <<>>),
                   input_token |->
                       [ mint |-> input_trade.input_token.mint,
                         amount_raw |-> to_string(SumInput(sorted, input_trade.input_token.mint)),
                         decimals |-> input_trade.input_token.decimals ],
                   output_token |->
                       [ mint |-> output_trade.output_token.mint,
                         amount_raw |-> to_string(SumOutput(sorted, output_trade.output_token.mint)),
                         decimals |-> output_trade.output_token.decimals ],
                   fee |-> input_trade.fee,
                   program_id |-> input_trade.program_id,
                   amm |-> IF IsSome(dex_amm) THEN dex_amm ELSE input_trade.amm,
                   route |-> IF IsSome(dex_route) THEN dex_route ELSE input_trade.route,
                   slot |-> input_trade.slot,
                   timestamp |-> input_trade.timestamp,
                   signature |-> input_trade.signature,
                   idx |-> input_trade.idx,
                   signer |-> input_trade.signer ])
        Ends(sorted) == Merge(sorted, sorted[1], sorted[Len(sorted)])
    IN IF trades = <<>> THEN None
       ELSE IF Len(trades) = 1 THEN Some(trades[1])
       ELSE Ends(sort_by_idx([i \in DOMAIN trades |-> <<trades[i], trades[i].idx>>]))

(***************************************************************************)
(* transaction_utils.rs: swap reconciliation                               *)
(***************************************************************************)
RECURSIVE UniqueMintsKeepNative(_, _, _)
\* The loop without the skip_native test.
UniqueMintsKeepNative(transfers, skip_native, unique_mints) ==
    IF transfers = <<>> THEN unique_mints
    ELSE LET mint == Head(transfers).info.mint
         IN UniqueMintsKeepNative(Tail(transfers), skip_native,
                IF \E i \in DOMAIN unique_mints : unique_mints[i] = mint
                THEN unique_mints ELSE Append(unique_mints, mint))

RECURSIVE UniqueMints(_, _, _)
UniqueMints(transfers, skip_native, unique_mints) ==
    IF transfers = <<>> THEN unique_mints
    ELSE LET mint == Head(transfers).info.mint
         IN UniqueMints(Tail(transfers), skip_native,
                IF \/ (skip_native /\ mint = NATIVE)
                   \/ \E i \in DOMAIN unique_mints : unique_mints[i] = mint
                THEN unique_mints ELSE Append(unique_mints, mint))

IsFeeTransfer(t) ==
    \/ t.info.destination \in FEE_ACCOUNTS
    \/ UnwrapOr(t.info.destination_owner, "") \in FEE_ACCOUNTS

RECURSIVE SumTokenAmountsCountingFees(_, _, _, _)
\* The loop with the continue after a fee transfer dropped.
SumTokenAmountsCountingFees(transfers, input_mint, output_mint, acc) ==
    IF transfers = <<>> THEN acc
    ELSE LET t == Head(transfers)
             key == t.info.token_amount.amount \o <<"-", t.info.mint>>
             amount == UnwrapOr(parse_uint(t.info.token_amount.amount), 0)
             Fee(a) == IF IsFeeTransfer(t) THEN [a EXCEPT !.fee_transfer = Some(t)] ELSE a
         IN SumTokenAmountsCountingFees(Tail(transfers), input_mint, output_mint,
                IF key \in acc.seen THEN Fee(acc)
                ELSE [ Fee(acc) EXCEPT
                         !.seen = acc.seen \cup {key},
                         !.input_raw = IF t.info.mint = input_mint THEN @ + amount ELSE @,
                         !.output_raw = IF t.info.mint = output_mint THEN @ + amount ELSE @ ])

RECURSIVE SumTokenAmountsLoop(_, _, _, _)
\* acc = [input_raw, output_raw, fee_transfer, seen]
SumTokenAmountsLoop(transfers, input_mint, output_mint, acc) ==
    IF transfers = <<>> THEN acc
    ELSE LET t == Head(transfers)
             key == t.info.token_amount.amount \o <<"-", t.info.mint>>
             amount == UnwrapOr(parse_uint(t.info.token_amount.amount), 0)
         IN SumTokenAmountsLoop(Tail(transfers), input_mint, output_mint,
                IF IsFeeTransfer(t) THEN [acc EXCEPT !.fee_transfer = Some(t)]
                ELSE IF key \in acc.seen THEN acc
                ELSE [ acc EXCEPT
                         !.seen = acc.seen \cup {key},
                         !.input_raw = IF t.info.mint = input_mint THEN @ + amount ELSE @,
                         !.output_raw = IF t.info.mint = output_mint THEN @ + amount ELSE @ ])

sum_token_amounts(transfers, input_mint, output_mint) ==
    SumTokenAmountsLoop(transfers, input_mint, output_mint,
        [input_raw |-> 0, output_raw |-> 0, fee_transfer |-> None, seen |-> {}])

get_swap_signer(adapter) ==
    IF \E i \in DOMAIN adapter.account_keys : adapter.account_keys[i] = JUPITER_DCA.id
    THEN UnwrapOr(get_account_key(adapter, 2), signer(adapter))
    ELSE signer(adapter)

FeeInfoOfTransfer(t) ==
    [ mint |-> t.info.mint, amount_raw |-> t.info.token_amount.amount,
      decimals |-> t.info.token_amount.decimals,
      dex |-> None, type_ |-> None, recipient |-> None ]

process_swap_data(adapter, transfers, dex_info, skip_native) ==
    IF Len(transfers) < 2 THEN None
    ELSE LET unique_mints == UniqueMints(transfers, skip_native, <<>>)
         IN IF Len(unique_mints) < 2 THEN None
            ELSE LET input_mint == unique_mints[1]
                     output_mint == unique_mints[Len(unique_mints)]
                     sums == sum_token_amounts(transfers, input_mint, output_mint)
                 IN Some([ user |-> get_swap_signer(adapter),
                           trade_type |-> get_trade_type(input_mint, output_mint),
                           pool |-> <<>>,
                           input_token |->
                               [ mint |-> input_mint,
                                 amount_raw |-> to_string(sums.input_raw),
                                 decimals |-> get_token_decimals(adapter, input_mint) ],
                           output_token |->
                               [ mint |-> output_mint,
                                 amount_raw |-> to_string(sums.output_raw),
                                 decimals |-> get_token_decimals(adapter, output_mint) ],
                           fee |-> IF IsSome(sums.fee_transfer)
                                   THEN Some(FeeInfoOfTransfer(sums.fee_transfer[1]))
                                   ELSE None,
                           program_id |-> dex_info.program_id,
                           amm |-> dex_info.amm,
                           route |-> dex_info.route,
                           slot |-> slot(adapter),
                           timestamp |-> block_time(adapter),
                           signature |-> signature(adapter),
                           idx |-> Head(transfers).idx,
                           signer |-> Some(signers(adapter)) ])

(***************************************************************************)
(* binary_reader.rs: a reader is [data, offset]; a read returns            *)
(* [ok, value, reader], reader being the reader after the call.            *)
(***************************************************************************)
BinaryReaderNew(data) == [data |-> data, offset |-> 0]

\* TRUE stands for Ok(()), FALSE for Err(Overflow{..}).
check_bounds(r, length) == ~(r.offset + length > Len(r.data))

Overflow(r, length) ==
    [requested |-> length, offset |-> r.offset, length |-> Len(r.data)]

read_fixed_array(r, length) ==
    IF ~check_bounds(r, length)
    THEN [ok |-> FALSE, value |-> Overflow(r, length), reader |-> r]
    ELSE [ ok |-> TRUE, value |-> Slice(r.data, r.offset, r.offset + length),
           reader |-> [r EXCEPT !.offset = r.offset + length] ]

read_u8(r) ==
    IF ~check_bounds(r, 1)
    THEN [ok |-> FALSE, value |-> Overflow(r, 1), reader |-> r]
    ELSE [ ok |-> TRUE, value |-> r.data[r.offset + 1],
           reader |-> [r EXCEPT !.offset = r.offset + 1] ]

read_u16_le(r) ==
    IF ~check_bounds(r, 2)
    THEN [ok |-> FALSE, value |-> Overflow(r, 2), reader |-> r]
    ELSE [ ok |-> TRUE, value |-> wide_from_le_bytes(Slice(r.data, r.offset, r.offset + 2)),
           reader |-> [r EXCEPT !.offset = r.offset + 2] ]

read_u32_le(r) ==
    IF ~check_bounds(r, 4)
    THEN [ok |-> FALSE, value |-> Overflow(r, 4), reader |-> r]
    ELSE [ ok |-> TRUE, value |-> wide_from_le_bytes(Slice(r.data, r.offset, r.offset + 4)),
           reader |-> [r EXCEPT !.offset = r.offset + 4] ]

\* The eight bytes taken most significant first.
read_u64_be(r) ==
    IF ~check_bounds(r, 8)
    THEN [ok |-> FALSE, value |-> Overflow(r, 8), reader |-> r]
    ELSE [ ok |-> TRUE,
           value |-> wide_from_le_bytes([i \in 1..8 |-> r.data[r.offset + 9 - i]]),
           reader |-> [r EXCEPT !.offset = r.offset + 8] ]

read_u64_le(r) ==
    IF ~check_bounds(r, 8)
    THEN [ok |-> FALSE, value |-> Overflow(r, 8), reader |-> r]
    ELSE [ ok |-> TRUE, value |-> wide_from_le_bytes(Slice(r.data, r.offset, r.offset + 8)),
           reader |-> [r EXCEPT !.offset = r.offset + 8] ]

\* The i64 keeps the 64 bits: two's complement, the sign in the top bit.
read_i64_le(r) ==
    IF ~check_bounds(r, 8)
    THEN [ok |-> FALSE, value |-> Overflow(r, 8), reader |-> r]
    ELSE [ ok |-> TRUE, value |-> wide_from_le_bytes(Slice(r.data, r.offset, r.offset + 8)),
           reader |-> [r EXCEPT !.offset = r.offset + 8] ]

read_pubkey(r) ==
    LET a == read_fixed_array(r, 32)
    IN IF a.ok THEN [a EXCEPT !.value = bs58_encode(a.value)] ELSE a

remaining(r) == IF Len(r.data) >= r.offset THEN Len(r.data) - r.offset ELSE 0

\* String::from_utf8_lossy: the characters as code points.  Below 128 a byte
\* is its character, which is the range of the model's string bytes; a byte
\* that is no UTF-8 at all becomes U+FFFD.
from_utf8_lossy(bytes) == [i \in DOMAIN bytes |-> IF bytes[i] < 128 THEN bytes[i] ELSE 65533]

\* `self.read_u32_le()? as usize`, then check_bounds on the reader that has
\* consumed the prefix.  The length prefixes of the model are below 2^31.
read_string_u32_len(r) ==
    LET Body(r1, len) ==
            IF ~check_bounds(r1, len)
            THEN [ok |-> FALSE, value |-> Overflow(r1, len), reader |-> r1]
            ELSE [ ok |-> TRUE,
                   value |-> from_utf8_lossy(Slice(r1.data, r1.offset, r1.offset + len)),
                   reader |-> [r1 EXCEPT !.offset = r1.offset + len] ]
        Prefix(prefix) == IF ~prefix.ok THEN prefix
                          ELSE Body(prefix.reader, narrow(prefix.value))
    IN Prefix(read_u32_le(r))

(***************************************************************************)
(* parsers/jupiter.rs                                                      *)
(***************************************************************************)
is_jupiter_route_event_instruction(data) ==
    IF Len(data) < 16 THEN FALSE
    ELSE Slice(data, 0, 16) = JUPITER_ROUTE_EVENT

\* BorshDeserialize::try_from_slice for JupiterSwapLayout: the five fields in
\* order, and an error when bytes are missing or left over.
JupiterSwapLayout(event_data) ==
    IF Len(event_data) # 112 THEN None
    ELSE Some([ amm |-> Slice(event_data, 0, 32),
                input_mint |-> Slice(event_data, 32, 64),
                input_amount |-> from_le_bytes(Slice(event_data, 64, 72)),
                output_mint |-> Slice(event_data, 72, 104),
                output_amount |-> from_le_bytes(Slice(event_data, 104, 112)) ])

parse_jupiter_route_event(adapter, data, idx) ==
    LET Event(layout, input_mint, output_mint) ==
            Some([ amm |-> bs58_encode(layout.amm),
                   input_mint |-> input_mint,
                   input_amount |-> layout.input_amount,
                   output_mint |-> output_mint,
                   output_amount |-> layout.output_amount,
                   input_mint_decimals |-> get_token_decimals(adapter, input_mint),
                   output_mint_decimals |-> get_token_decimals(adapter, output_mint),
                   idx |-> idx ])
        Decode(layout) ==
            IF ~IsSome(layout) THEN None
            ELSE Event(layout[1], bs58_encode(layout[1].input_mint),
                       bs58_encode(layout[1].output_mint))
    IN IF Len(data) < 16 THEN None
       ELSE Decode(JupiterSwapLayout(Slice(data, 16, Len(data))))

build_trade_from_event(adapter, dex_info, event) ==
    LET signer_index ==
            IF \E i \in DOMAIN adapter.account_keys : adapter.account_keys[i] = JUPITER_DCA.id
            THEN 2 ELSE 0
    IN [ user |-> UnwrapOr(get_account_key(adapter, signer_index), signer(adapter)),
         trade_type |-> get_trade_type(event.input_mint, event.output_mint),
         pool |-> <<>>,
         input_token |-> [ mint |-> event.input_mint,
                           amount_raw |-> to_string(event.input_amount),
                           decimals |-> event.input_mint_decimals ],
         output_token |-> [ mint |-> event.output_mint,
                            amount_raw |-> to_string(event.output_amount),
                            decimals |-> event.output_mint_decimals ],
         fee |-> None,
         program_id |-> dex_info.program_id,
         amm |-> Some(get_program_name(event.amm)),
         route |-> IF IsSome(dex_info.route) THEN dex_info.route ELSE Some("Jupiter"),
         slot |-> slot(adapter),
         timestamp |-> block_time(adapter),
         signature |-> signature(adapter),
         idx |-> event.idx,
         signer |-> Some(signers(adapter)) ]

\* The trades one classified instruction contributes (a sequence of 0 or 1).
JupiterTradesOf(adapter, dex_info, ci) ==
    LET Trade(event) ==
            IF IsSome(event) THEN <<build_trade_from_event(adapter, dex_info, event[1])>>
            ELSE <<>>
    IN IF ci.program_id # JUPITER.id THEN <<>>
       ELSE IF ~is_jupiter_route_event_instruction(ci.data) THEN <<>>
       ELSE Trade(parse_jupiter_route_event(adapter, ci.data,
                      InnerIdx(ci.outer_index, UnwrapOr(ci.inner_index, 0))))

RECURSIVE JupiterProcessTrades(_, _, _)
\* JupiterParser::process_trades
JupiterProcessTrades(adapter, dex_info, instructions) ==
    IF instructions = <<>> THEN <<>>
    ELSE JupiterTradesOf(adapter, dex_info, Head(instructions))
         \o JupiterProcessTrades(adapter, dex_info, Tail(instructions))

(***************************************************************************)
(* parsers/pumpfun.rs                                                      *)
(***************************************************************************)
\* The timestamp of an event of the model is below 2^31 and is kept as a number.
decode_trade_event(data) ==
    LET r0 == BinaryReaderNew(data)
        mint == read_fixed_array(r0, 32)
        sol_amount == read_u64_le(mint.reader)
        token_amount == read_u64_le(sol_amount.reader)
        is_buy == read_u8(token_amount.reader)
        user == read_fixed_array(is_buy.reader, 32)
        timestamp == read_i64_le(user.reader)
        skip1 == read_u64_le(timestamp.reader)
        skip2 == read_u64_le(skip1.reader)
        t1 == read_u64_le(skip2.reader)
        t2 == read_u64_le(t1.reader)
        t3 == read_fixed_array(t2.reader, 32)
        t4 == read_u16_le(t3.reader)
        fee_lamports == read_u64_le(t4.reader)
    IN IF ~(/\ mint.ok /\ sol_amount.ok /\ token_amount.ok /\ is_buy.ok
            /\ user.ok /\ timestamp.ok /\ skip1.ok /\ skip2.ok)
       THEN None
       ELSE IF remaining(skip2.reader) >= 58
       THEN IF ~(t1.ok /\ t2.ok /\ t3.ok /\ t4.ok /\ fee_lamports.ok) THEN None
            ELSE Some([ mint |-> bs58_encode(mint.value), sol_amount |-> sol_amount.value,
                        token_amount |-> token_amount.value, is_buy |-> is_buy.value = 1,
                        user |-> bs58_encode(user.value), timestamp |-> i64_narrow(timestamp.value),
                        bonding_curve |-> None, fee |-> Some(fee_lamports.value) ])
       ELSE Some([ mint |-> bs58_encode(mint.value), sol_amount |-> sol_amount.value,
                   token_amount |-> token_amount.value, is_buy |-> is_buy.value = 1,
                   user |-> bs58_encode(user.value), timestamp |-> i64_narrow(timestamp.value),
                   bonding_curve |-> None, fee |-> None ])

\* The trade with the direction of a buy whatever is_buy says.
PumpfunTradeAlwaysBuy(adapter, dex_info, ci, evt) ==
    [ user |-> evt.user,
      trade_type |-> IF evt.is_buy THEN "Buy" ELSE "Sell",
      pool |-> IF IsSome(evt.bonding_curve) THEN <<evt.bonding_curve[1]>> ELSE <<>>,
      input_token |-> [mint |-> SOL, amount_raw |-> u64_to_string(evt.sol_amount), decimals |-> 9],
      output_token |-> [mint |-> evt.mint, amount_raw |-> u64_to_string(evt.token_amount), decimals |-> 6],
      fee |-> IF IsSome(evt.fee)
              THEN Some([ mint |-> SOL, amount_raw |-> u64_to_string(evt.fee[1]), decimals |-> 9,
                          dex |-> None, type_ |-> None, recipient |-> None ])
              ELSE None,
      program_id |-> Some(PUMP_FUN.id),
      amm |-> Some(PUMP_FUN.name),
      route |-> dex_info.route,
      slot |-> slot(adapter),
      timestamp |-> evt.timestamp,
      signature |-> signature(adapter),
      idx |-> InnerIdx(ci.outer_index, UnwrapOr(ci.inner_index, 0)),
      signer |-> Some(signers(adapter)) ]

PumpfunTradeOfEvent(adapter, dex_info, ci, evt) ==
    [ user |-> evt.user,
      trade_type |-> IF evt.is_buy THEN "Buy" ELSE "Sell",
      pool |-> IF IsSome(evt.bonding_curve) THEN <<evt.bonding_curve[1]>> ELSE <<>>,
      input_token |-> IF evt.is_buy
                      THEN [mint |-> SOL, amount_raw |-> u64_to_string(evt.sol_amount), decimals |-> 9]
                      ELSE [mint |-> evt.mint, amount_raw |-> u64_to_string(evt.token_amount), decimals |-> 6],
      output_token |-> IF evt.is_buy
                       THEN [mint |-> evt.mint, amount_raw |-> u64_to_string(evt.token_amount), decimals |-> 6]
                       ELSE [mint |-> SOL, amount_raw |-> u64_to_string(evt.sol_amount), decimals |-> 9],
      fee |-> IF IsSome(evt.fee)
              THEN Some([ mint |-> SOL, amount_raw |-> u64_to_string(evt.fee[1]), decimals |-> 9,
                          dex |-> None, type_ |-> None, recipient |-> None ])
              ELSE None,
      program_id |-> Some(PUMP_FUN.id),
      amm |-> Some(PUMP_FUN.name),
      route |-> dex_info.route,
      slot |-> slot(adapter),
      timestamp |-> evt.timestamp,
      signature |-> signature(adapter),
      idx |-> InnerIdx(ci.outer_index, UnwrapOr(ci.inner_index, 0)),
      signer |-> Some(signers(adapter)) ]

PumpfunTradesOf(adapter, dex_info, ci) ==
    LET Trade(evt) ==
            IF IsSome(evt) THEN <<PumpfunTradeOfEvent(adapter, dex_info, ci, evt[1])>>
            ELSE <<>>
    IN IF ci.program_id # PUMP_FUN.id THEN <<>>
       ELSE IF Len(ci.data) < 16 THEN <<>>
       ELSE IF Slice(ci.data, 0, 16) # PUMPFUN_TRADE_EVENT THEN <<>>
       ELSE Trade(decode_trade_event(Slice(ci.data, 16, Len(ci.data))))

RECURSIVE PumpfunProcessTrades(_, _, _)
\* PumpfunParser::process_trades
PumpfunProcessTrades(adapter, dex_info, instructions) ==
    IF instructions = <<>> THEN <<>>
    ELSE PumpfunTradesOf(adapter, dex_info, Head(instructions))
         \o PumpfunProcessTrades(adapter, dex_info, Tail(instructions))

(***************************************************************************)
(* parsers/raydium.rs                                                      *)
(***************************************************************************)
raydium_not_liquidity_event(data) ==
    IF data = <<>> THEN TRUE
    ELSE IF \/ data[1] = discriminators.RAYDIUM_CREATE[1]
            \/ data[1] = discriminators.RAYDIUM_ADD_LIQUIDITY[1]
            \/ data[1] = discriminators.RAYDIUM_REMOVE_LIQUIDITY[1]
    THEN FALSE
    ELSE IF Len(data) >= 8 /\ Slice(data, 0, 8) \in
                { discriminators.RAYDIUM_CPMM_CREATE, discriminators.RAYDIUM_CPMM_ADD_LIQUIDITY,
                  discriminators.RAYDIUM_CPMM_REMOVE_LIQUIDITY }
    THEN FALSE
    ELSE TRUE

raydium_get_pool_address(accounts, program_id) ==
    IF Len(accounts) <= 5 THEN None
    ELSE IF program_id = RAYDIUM_V4.id \/ program_id = RAYDIUM_AMM.id THEN KeyAt(accounts, 1)
    ELSE IF program_id = RAYDIUM_CL.id THEN KeyAt(accounts, 2)
    ELSE IF program_id = RAYDIUM_CPMM.id THEN KeyAt(accounts, 3)
    ELSE None

RaydiumTradesOf(adapter, dex_info, transfer_actions, ci) ==
    LET Trade(transfers, trade, pool) ==
            IF ~IsSome(trade) THEN <<>>
            ELSE << [ trade[1] EXCEPT
                        !.pool = IF IsSome(pool) THEN <<pool[1]>> ELSE @,
                        !.fee = IF Len(transfers) > 2
                                THEN Some(FeeInfoOfTransfer(transfers[3])) ELSE @ ] >>
        Swap(transfers) ==
            IF Len(transfers) < 2 THEN <<>>
            ELSE Trade(transfers,
                       process_swap_data(adapter, SubSeq(transfers, 1, 2),
                           [dex_info EXCEPT !.amm = Some(get_program_name(ci.program_id))],
                           TRUE),
                       raydium_get_pool_address(ci.accounts, ci.program_id))
    IN IF ~raydium_not_liquidity_event(ci.data) THEN <<>>
       ELSE Swap(get_transfers_for_instruction(transfer_actions, ci.program_id,
                                               ci.outer_index, ci.inner_index))

RECURSIVE RaydiumProcessTrades(_, _, _, _)
\* RaydiumParser::process_trades
RaydiumProcessTrades(adapter, dex_info, transfer_actions, instructions) ==
    IF instructions = <<>> THEN <<>>
    ELSE RaydiumTradesOf(adapter, dex_info, transfer_actions, Head(instructions))
         \o RaydiumProcessTrades(adapter, dex_info, transfer_actions, Tail(instructions))

(***************************************************************************)
(* parsers/orca.rs                                                         *)
(***************************************************************************)
orca_not_liquidity_event(data) ==
    IF Len(data) < 8 THEN TRUE
    ELSE Slice(data, 0, 8) \notin
            { discriminators.ORCA_CREATE, discriminators.ORCA_CREATE2, discriminators.ORCA_INCREASE_LIQUIDITY,
              discriminators.ORCA_INCREASE_LIQUIDITY2, discriminators.ORCA_DECREASE_LIQUIDITY }

OrcaTradesOf(adapter, dex_info, transfer_actions, ci) ==
    LET Trade(trade) == IF IsSome(trade) THEN <<trade[1]>> ELSE <<>>
        Swap(transfers) ==
            IF Len(transfers) < 2 THEN <<>>
            ELSE Trade(process_swap_data(adapter, transfers,
                           [dex_info EXCEPT !.amm = Some(get_program_name(ci.program_id))],
                           TRUE))
    IN IF ci.program_id # ORCA.id THEN <<>>
       ELSE IF ~orca_not_liquidity_event(ci.data) THEN <<>>
       ELSE Swap(get_transfers_for_instruction(transfer_actions, ci.program_id,
                                               ci.outer_index, ci.inner_index))

RECURSIVE OrcaProcessTrades(_, _, _, _)
\* OrcaParser::process_trades
OrcaProcessTrades(adapter, dex_info, transfer_actions, instructions) ==
    IF instructions = <<>> THEN <<>>
    ELSE OrcaTradesOf(adapter, dex_info, transfer_actions, Head(instructions))
         \o OrcaProcessTrades(adapter, dex_info, transfer_actions, Tail(instructions))

(***************************************************************************)
(* parsers/meteora.rs                                                      *)
(***************************************************************************)
meteora_not_liquidity_event(data) ==
    IF Len(data) < 8 THEN TRUE
    ELSE Slice(data, 0, 8) \notin
            { discriminators.METEORA_DLMM_ADD_LIQUIDITY, discriminators.METEORA_DLMM_REMOVE_LIQUIDITY,
              discriminators.METEORA_DAMM_CREATE, discriminators.METEORA_DAMM_ADD, discriminators.METEORA_DAMM_REMOVE,
              discriminators.METEORA_DAMM_V2_INIT, discriminators.METEORA_DAMM_V2_ADD, discriminators.METEORA_DAMM_V2_REMOVE }

meteora_get_pool_address(accounts, program_id) ==
    IF Len(accounts) <= 5 THEN None
    ELSE IF program_id = METEORA.id \/ program_id = METEORA_DAMM.id THEN KeyAt(accounts, 0)
    ELSE IF program_id = METEORA_DAMM_V2.id THEN KeyAt(accounts, 1)
    ELSE None

MeteoraTradesOf(adapter, dex_info, transfer_actions, ci) ==
    LET Trade(trade, pool) ==
            IF ~IsSome(trade) THEN <<>>
            ELSE << [ trade[1] EXCEPT
                        !.pool = IF IsSome(pool) THEN <<pool[1]>> ELSE @ ] >>
        Swap(found) ==
            IF Len(found) < 2 THEN <<>>
            ELSE Trade(process_swap_data(adapter,
                           IF ci.program_id = METEORA.id THEN SubSeq(found, 1, 2) ELSE found,
                           [dex_info EXCEPT !.amm = Some(get_program_name(ci.program_id))],
                           TRUE),
                       meteora_get_pool_address(ci.accounts, ci.program_id))
    IN IF ci.program_id \notin {METEORA.id, METEORA_DAMM.id, METEORA_DAMM_V2.id} THEN <<>>
       ELSE IF ~meteora_not_liquidity_event(ci.data) THEN <<>>
       ELSE Swap(get_transfers_for_instruction(transfer_actions, ci.program_id,
                                               ci.outer_index, ci.inner_index))

RECURSIVE MeteoraProcessTrades(_, _, _, _)
\* MeteoraParser::process_trades
MeteoraProcessTrades(adapter, dex_info, transfer_actions, instructions) ==
    IF instructions = <<>> THEN <<>>
    ELSE MeteoraTradesOf(adapter, dex_info, transfer_actions, Head(instructions))
         \o MeteoraProcessTrades(adapter, dex_info, transfer_actions, Tail(instructions))

(***************************************************************************)
(* parsers/pumpswap.rs                                                     *)
(***************************************************************************)
RECURSIVE ReadU64Run(_, _)
\* n consecutive `r.read_u64_le().ok()?`: [ok, values, reader].
ReadU64Run(r, n) ==
    IF n = 0 THEN [ok |-> TRUE, values |-> <<>>, reader |-> r]
    ELSE LET v == read_u64_le(r)
         IN IF ~v.ok THEN [ok |-> FALSE, values |-> <<>>, reader |-> r]
            ELSE LET rest == ReadU64Run(v.reader, n - 1)
                 IN [rest EXCEPT !.values = <<v.value>> \o @]

RECURSIVE ReadPubkeyRun(_, _)
\* n consecutive `r.read_pubkey().ok()?`.
ReadPubkeyRun(r, n) ==
    IF n = 0 THEN [ok |-> TRUE, values |-> <<>>, reader |-> r]
    ELSE LET v == read_pubkey(r)
         IN IF ~v.ok THEN [ok |-> FALSE, values |-> <<>>, reader |-> r]
            ELSE LET rest == ReadPubkeyRun(v.reader, n - 1)
                 IN [rest EXCEPT !.values = <<v.value>> \o @]

\* The fields both event layouts share: the timestamp, thirteen u64 and six
\* addresses; None when a read fails.
PumpswapEventHead(data) ==
    LET Keys(ts, nums, keys) ==
            IF ~ts.ok \/ ~nums.ok \/ ~keys.ok THEN None
            ELSE Some([nums |-> nums.values, keys |-> keys.values, reader |-> keys.reader])
        Nums(ts, nums) == Keys(ts, nums, ReadPubkeyRun(nums.reader, 6))
        Ts(ts) == Nums(ts, ReadU64Run(ts.reader, 13))
    IN Ts(read_i64_le(BinaryReaderNew(data)))

decode_buy_event(data) ==
    LET Decode(head) ==
            IF ~IsSome(head) THEN None
            ELSE LET h == head[1]
                     creator == read_pubkey(h.reader)
                     bps == read_u64_le(creator.reader)
                     creator_fee == read_u64_le(bps.reader)
                     has_trailer == remaining(h.reader) >= 48
                 IN IF has_trailer /\ ~(creator.ok /\ bps.ok /\ creator_fee.ok) THEN None
                    ELSE Some([ base_amount_out |-> h.nums[1],
                                quote_amount_in_with_lp_fee |-> h.nums[12],
                                protocol_fee |-> h.nums[11],
                                coin_creator_fee |->
                                    IF has_trailer THEN creator_fee.value ELSE U64_ZERO,
                                pool |-> h.keys[1], user |-> h.keys[2],
                                user_base_token_account |-> h.keys[3],
                                user_quote_token_account |-> h.keys[4],
                                protocol_fee_recipient |-> h.keys[5],
                                protocol_fee_recipient_token_account |-> h.keys[6] ])
    IN Decode(PumpswapEventHead(data))

decode_sell_event(data) ==
    LET Decode(head) ==
            IF ~IsSome(head) THEN None
            ELSE LET h == head[1]
                     creator == read_pubkey(h.reader)
                     bps == read_u64_le(creator.reader)
                     creator_fee == read_u64_le(bps.reader)
                     has_trailer == remaining(h.reader) >= 48
                 IN IF has_trailer /\ ~(creator.ok /\ bps.ok) THEN None
                    ELSE Some([ base_amount_in |-> h.nums[1],
                                user_quote_amount_out |-> h.nums[13],
                                protocol_fee |-> h.nums[11],
                                coin_creator_fee |->
                                    IF has_trailer /\ creator_fee.ok
                                    THEN creator_fee.value ELSE U64_ZERO,
                                pool |-> h.keys[1], user |-> h.keys[2],
                                user_base_token_account |-> h.keys[3],
                                user_quote_token_account |-> h.keys[4],
                                protocol_fee_recipient |-> h.keys[5],
                                protocol_fee_recipient_token_account |-> h.keys[6] ])
    IN Decode(PumpswapEventHead(data))

\* The trade of a buy event (is_buy) or of a sell event, once the three mints
\* are resolved.  fee_amt is `evt.protocol_fee + evt.coin_creator_fee` in u64.
PumpswapTrade(adapter, dex_info, idx, evt, is_buy, in_m, out_m, fee_m) ==
    LET fee_amt == wrapping_add(evt.protocol_fee, evt.coin_creator_fee)
    IN IF u64_add_overflows(evt.protocol_fee, evt.coin_creator_fee) /\ overflow_checks
       THEN Panic("attempt to add with overflow")
       ELSE
       [ user |-> evt.user,
         trade_type |-> get_trade_type(in_m, out_m),
         pool |-> <<evt.pool>>,
         input_token |->
             [ mint |-> in_m,
               amount_raw |-> u64_to_string(IF is_buy THEN evt.quote_amount_in_with_lp_fee
                                            ELSE evt.base_amount_in),
               decimals |-> get_token_decimals(adapter, in_m) ],
         output_token |->
             [ mint |-> out_m,
               amount_raw |-> u64_to_string(IF is_buy THEN evt.base_amount_out
                                            ELSE evt.user_quote_amount_out),
               decimals |-> get_token_decimals(adapter, out_m) ],
         fee |-> Some([ mint |-> fee_m,
                        amount_raw |-> IF is_buy THEN u64_to_string(fee_amt)
                                       ELSE u64_to_string(evt.protocol_fee),
                        decimals |-> get_token_decimals(adapter, fee_m),
                        dex |-> Some(PUMP_SWAP.name),
                        type_ |-> IF is_buy THEN Some("protocol") ELSE None,
                        recipient |-> Some(evt.protocol_fee_recipient) ]),
         program_id |-> Some(PUMP_SWAP.id),
         amm |-> Some(PUMP_SWAP.name),
         route |-> dex_info.route,
         slot |-> slot(adapter),
         timestamp |-> block_time(adapter),
         signature |-> signature(adapter),
         idx |-> idx,
         signer |-> Some(signers(adapter)) ]

PumpswapTradesOf(adapter, dex_info, ci) ==
    LET idx == InnerIdx(ci.outer_index, UnwrapOr(ci.inner_index, 0))
        is_buy == Slice(ci.data, 0, 16) = PUMPSWAP_BUY_EVENT
        is_sell == Slice(ci.data, 0, 16) = PUMPSWAP_SELL_EVENT
        Trade(evt, quote_mint, base_mint, fee_mint) ==
            IF IsSome(quote_mint) /\ IsSome(base_mint) /\ IsSome(fee_mint)
            THEN << PumpswapTrade(adapter, dex_info, idx, evt, is_buy,
                                  IF is_buy THEN quote_mint[1] ELSE base_mint[1],
                                  IF is_buy THEN base_mint[1] ELSE quote_mint[1],
                                  fee_mint[1]) >>
            ELSE <<>>
        Resolve(evt) ==
            IF ~IsSome(evt) THEN <<>>
            ELSE Trade(evt[1],
                       TokenMintOf(adapter, evt[1].user_quote_token_account),
                       TokenMintOf(adapter, evt[1].user_base_token_account),
                       TokenMintOf(adapter, evt[1].protocol_fee_recipient_token_account))
    IN IF ci.program_id # PUMP_SWAP.id THEN <<>>
       ELSE IF Len(ci.data) < 16 THEN <<>>
       ELSE IF is_buy THEN Resolve(decode_buy_event(Slice(ci.data, 16, Len(ci.data))))
       ELSE IF is_sell THEN Resolve(decode_sell_event(Slice(ci.data, 16, Len(ci.data))))
       ELSE <<>>

\* A call that returns a list has unwound when the list is the panic alone.
Unwound(list) == Len(list) > 0 /\ IsPanic(list[1])

RECURSIVE PumpswapProcessTrades(_, _, _)
\* PumpswapParser::process_trades; a panic in an instruction ends the call.
PumpswapProcessTrades(adapter, dex_info, instructions) ==
    LET Push(first, rest) ==
            IF Unwound(first) THEN first
            ELSE IF Unwound(rest) THEN rest
            ELSE first \o rest
    IN IF instructions = <<>> THEN <<>>
       ELSE Push(PumpswapTradesOf(adapter, dex_info, Head(instructions)),
                 PumpswapProcessTrades(adapter, dex_info, Tail(instructions)))

(***************************************************************************)
(* transaction_adapter.rs: balance-change reports                          *)
(***************************************************************************)
LamportAmount(v) == [amount |-> u64_to_string(v), decimals |-> 9]

RECURSIVE SolBalanceChangesFrom(_, _, _, _, _)
\* The loop over account_keys.iter().enumerate(), from position index.
\* `post_bal as i64 - pre_bal as i64` reinterprets the 64 bits of each balance
\* and subtracts in i64; change.abs() negates a negative difference in i64.
SolBalanceChangesFrom(keys, pre, post, index, changes) ==
    LET Entry(pre_bal, post_bal, change) ==
            [ pre |-> LamportAmount(pre_bal), post |-> LamportAmount(post_bal),
              change |-> [ amount |-> i64_to_string(IF IsNegative(change)
                                                    THEN wrapping_neg(change) ELSE change),
                           decimals |-> 9 ] ]
        Step(pre_bal, post_bal, change) ==
            IF i64_sub_overflows(post_bal, pre_bal) /\ overflow_checks
            THEN Panic("attempt to subtract with overflow")
            ELSE IF IsZeroWide(change)
            THEN SolBalanceChangesFrom(keys, pre, post, index + 1, changes)
            ELSE IF change = I64_MIN /\ overflow_checks
            THEN Panic("attempt to negate with overflow")
            ELSE SolBalanceChangesFrom(keys, pre, post, index + 1,
                     MapInsert(changes, keys[index + 1], Entry(pre_bal, post_bal, change)))
        Balances(pre_bal, post_bal) == Step(pre_bal, post_bal, wrapping_sub(post_bal, pre_bal))
    IN IF index >= Len(keys) THEN changes
       ELSE Balances(UnwrapOr(KeyAt(pre, index), U64_ZERO),
                     UnwrapOr(KeyAt(post, index), U64_ZERO))

get_account_sol_balance_changes(adapter) ==
    SolBalanceChangesFrom(adapter.account_keys,
                          UnwrapOr(pre_balances(adapter.tx), <<>>),
                          UnwrapOr(post_balances(adapter.tx), <<>>), 0, EmptyMap)

UiAmount(b) == [amount |-> b.ui_token_amount.amount, decimals |-> b.ui_token_amount.decimals]

ZeroAmount(b) == [amount |-> to_string(0), decimals |-> b.ui_token_amount.decimals]

RECURSIVE TokenChangesPre(_, _, _)
TokenChangesPre(adapter, pre, changes) ==
    IF pre = <<>> THEN changes
    ELSE LET balance == Head(pre)
             key == UnwrapOr(get_account_key(adapter, balance.account_index), "")
             mint == UnwrapOr(balance.mint, "")
         IN TokenChangesPre(adapter, Tail(pre),
                IF mint = "" THEN changes
                ELSE MapInsert(changes, key,
                        MapInsert(UnwrapOr(MapGet(changes, key), EmptyMap), mint,
                            [ pre |-> UiAmount(balance), post |-> ZeroAmount(balance),
                              change |-> ZeroAmount(balance) ])))

RECURSIVE TokenChangesPost(_, _, _)
TokenChangesPost(adapter, post, changes) ==
    IF post = <<>> THEN changes
    ELSE LET balance == Head(post)
             key == UnwrapOr(get_account_key(adapter, balance.account_index), "")
             mint == UnwrapOr(balance.mint, "")
             entry == UnwrapOr(MapGet(changes, key), EmptyMap)
             pre_amount == UnwrapOr(parse_uint(entry[mint].pre.amount), 0)
             post_amount == UnwrapOr(parse_uint(balance.ui_token_amount.amount), 0)
             change_amount == post_amount - pre_amount
         IN TokenChangesPost(adapter, Tail(post),
                IF mint = "" THEN changes
                ELSE IF mint \in DOMAIN entry
                THEN IF change_amount = 0
                     THEN MapInsert(changes, key, MapRemoveKey(entry, mint))
                     ELSE MapInsert(changes, key, MapInsert(entry, mint,
                            [ pre |-> entry[mint].pre, post |-> UiAmount(balance),
                              change |->
                                [ amount |-> to_string(IF change_amount < 0
                                                       THEN 0 - change_amount ELSE change_amount),
                                  decimals |-> balance.ui_token_amount.decimals ] ]))
                ELSE MapInsert(changes, key, MapInsert(entry, mint,
                        [ pre |-> ZeroAmount(balance), post |-> UiAmount(balance),
                          change |-> UiAmount(balance) ])))

get_account_token_balance_changes(adapter) ==
    TokenChangesPost(adapter, UnwrapOr(post_token_balances(adapter.tx), <<>>),
        TokenChangesPre(adapter, UnwrapOr(pre_token_balances(adapter.tx), <<>>), EmptyMap))

(***************************************************************************)
(* dex_parser.rs                                                           *)
(***************************************************************************)
Contains(vec, x) == \E i \in DOMAIN vec : vec[i] = x

RECURSIVE RetainUnseenByIdx(_, _)
\* The retain with the signature dropped from the key.
RetainUnseenByIdx(trades, seen) ==
    IF trades = <<>> THEN <<>>
    ELSE LET t == Head(trades)
         IN IF t.idx \in seen THEN RetainUnseenByIdx(Tail(trades), seen)
            ELSE <<t>> \o RetainUnseenByIdx(Tail(trades), seen \cup {t.idx})

RECURSIVE RetainUnseen(_, _)
\* result.trades.retain(..): a trade stays when its "{idx}-{signature}" key
\* was not inserted before.
RetainUnseen(trades, seen) ==
    IF trades = <<>> THEN <<>>
    ELSE LET t == Head(trades)
             key == t.idx \o <<"-", t.signature>>
         IN IF key \in seen THEN RetainUnseen(Tail(trades), seen)
            ELSE <<t>> \o RetainUnseen(Tail(trades), seen \cup {key})

\* Lines 178-187: the deduplication runs for more than one trade.
DedupTrades(trades) ==
    IF Len(trades) > 1 THEN RetainUnseen(trades, {}) ELSE trades

\* The dispatch of the program walk: the trades one program ID contributes.
DecodeProgram(adapter, instruction_map, transfer_actions, dex_info, program_id) ==
    LET Dispatch(instructions, dex_info_here) ==
            IF program_id = JUPITER.id
            THEN JupiterProcessTrades(adapter, dex_info_here, instructions)
            ELSE IF program_id \in { RAYDIUM_V4.id, RAYDIUM_AMM.id, RAYDIUM_CPMM.id,
                                     RAYDIUM_CL.id, RAYDIUM_ROUTE.id }
            THEN RaydiumProcessTrades(adapter, dex_info_here, transfer_actions, instructions)
            ELSE IF program_id = ORCA.id
            THEN OrcaProcessTrades(adapter, dex_info_here, transfer_actions, instructions)
            ELSE IF program_id \in {METEORA.id, METEORA_DAMM.id, METEORA_DAMM_V2.id}
            THEN MeteoraProcessTrades(adapter, dex_info_here, transfer_actions, instructions)
            ELSE IF program_id = PUMP_FUN.id
            THEN PumpfunProcessTrades(adapter, dex_info_here, instructions)
            ELSE IF program_id = PUMP_SWAP.id
            THEN PumpswapProcessTrades(adapter, dex_info_here, instructions)
            ELSE <<>>
    IN Dispatch(get_instructions(instruction_map, program_id),
                [ program_id |-> Some(program_id),
                  amm |-> Some(get_program_name(program_id)),
                  route |-> dex_info.route ])

\* The two `continue`s at the head of the program walk.
WalkSkips(config, program_id) ==
    \/ (IsSome(config.program_ids) /\ ~Contains(config.program_ids[1], program_id))
    \/ (IsSome(config.ignore_program_ids) /\ Contains(config.ignore_program_ids[1], program_id))

RECURSIVE WalkPrograms(_, _, _, _, _, _)
\* for program_id in &all_program_ids { .. result.trades.extend(..) }
WalkPrograms(adapter, instruction_map, transfer_actions, dex_info, config, program_ids) ==
    IF program_ids = <<>> THEN <<>>
    ELSE (IF WalkSkips(config, Head(program_ids)) THEN <<>>
          ELSE DecodeProgram(adapter, instruction_map, transfer_actions, dex_info,
                             Head(program_ids)))
         \o WalkPrograms(adapter, instruction_map, transfer_actions, dex_info, config,
                         Tail(program_ids))

\* The ParseResult skeleton of lines 49-78.
ResultSkeleton(adapter) ==
    [ state |-> TRUE, fee |-> fee(adapter), aggregate_trade |-> None, trades |-> <<>>,
      liquidities |-> <<>>, transfers |-> <<>>, meme_events |-> <<>>,
      slot |-> slot(adapter), timestamp |-> block_time(adapter),
      signature |-> signature(adapter), signer |-> signers(adapter),
      compute_units |-> compute_units(adapter), tx_status |-> tx_status(adapter),
      msg |-> None, sol_balance_change |-> None, token_balance_change |-> None ]

\* Lines 101-134: Some(result) when the Jupiter branch returns, else None.
JupiterFastPath(adapter, instruction_map, transfer_actions, dex_info, config, result) ==
    LET jupiter_ids == {JUPITER.id, JUPITER_DCA.id, JUPITER_VA.id, JUPITER_LIMIT_ORDER_V2.id}
        program_id == UnwrapOr(dex_info.program_id, "")
        Return(filled) ==
            IF filled.trades # <<>> \/ IsSome(filled.aggregate_trade) THEN Some(filled)
            ELSE None
        Fill(trades) ==
            IF trades = <<>> THEN None
            ELSE IF config.aggregate_trades
            THEN Return([result EXCEPT !.aggregate_trade =
                            get_final_swap(trades, dex_info.amm, dex_info.route)])
            ELSE Return([result EXCEPT !.trades = trades])
    IN IF ~(IsSome(dex_info.program_id) /\ dex_info.program_id[1] \in jupiter_ids) THEN None
       ELSE IF program_id # JUPITER.id THEN None
       ELSE Fill(JupiterProcessTrades(adapter,
                     [ program_id |-> Some(program_id),
                       amm |-> Some(get_program_name(program_id)),
                       route |-> dex_info.route ],
                     get_instructions(instruction_map, program_id)))

\* Lines 195-199.
AttachBalanceChanges(adapter, result) ==
    [ result EXCEPT
        !.sol_balance_change = MapGet(get_account_sol_balance_changes(adapter), signer(adapter)),
        !.token_balance_change = MapGet(get_account_token_balance_changes(adapter), signer(adapter)) ]

\* DexParser::parse_with_classifier for ParseType::Trades and ParseType::All;
\* key_order is the enumeration order of the classifier's HashMap.
parse_with_classifier(tx, config, key_order) ==
    LET General(adapter, result, dex_info, walked, trades) ==
            AttachBalanceChanges(adapter,
                [ result EXCEPT
                    !.trades = trades,
                    !.aggregate_trade =
                        IF Len(walked) > 1 /\ config.aggregate_trades
                        THEN get_final_swap(trades, dex_info.amm, dex_info.route)
                        ELSE None ])
        Walk(adapter, result, dex_info, walked) ==
            General(adapter, result, dex_info, walked, DedupTrades(walked))
        Trades(adapter, result, instruction_map, transfer_actions, dex_info,
               all_program_ids, fast) ==
            IF IsSome(fast) THEN fast[1]
            ELSE Walk(adapter, result, dex_info,
                      WalkPrograms(adapter, instruction_map, transfer_actions, dex_info,
                                   config, all_program_ids))
        Transfers(adapter, result, instruction_map, transfer_actions, dex_info,
                  all_program_ids) ==
            Trades(adapter, result, instruction_map, transfer_actions, dex_info,
                   all_program_ids,
                   JupiterFastPath(adapter, instruction_map, transfer_actions, dex_info,
                                   config, result))
        Filter(adapter, result, instruction_map, dex_info, all_program_ids) ==
            IF /\ IsSome(config.program_ids)
               /\ ~(\E i \in DOMAIN all_program_ids :
                       Contains(config.program_ids[1], all_program_ids[i]))
            THEN [result EXCEPT !.state = FALSE]
            ELSE Transfers(adapter, result, instruction_map, get_transfer_actions(adapter),
                           dex_info, all_program_ids)
        Classify(adapter, instruction_map) ==
            Filter(adapter, ResultSkeleton(adapter), instruction_map,
                   get_dex_info(instruction_map, key_order),
                   get_all_program_ids(instruction_map, key_order))
        Adapt(adapter) == Classify(adapter, classify_instructions(adapter))
    IN Adapt(NewAdapter(tx))

\* DexParser::parse_all
parse_all(tx, config, key_order) == parse_with_classifier(tx, config, key_order)

\* DexParser::parse_trades
parse_trades(tx, config, key_order) == parse_with_classifier(tx, config, key_order).trades


(***************************************************************************)
(* shred_parser.rs                                                         *)
(***************************************************************************)
\* serde_json::json!({ "programId": .., "outerIndex": .., "innerIndex": .. })
ShredJson(ci) ==
    [programId |-> ci.program_id, outerIndex |-> ci.outer_index, innerIndex |-> ci.inner_index]

RECURSIVE ShredWalk(_, _, _, _)
\* for program_id in &all_program_ids { .. result.instructions.insert(name, ..) }
ShredWalk(instruction_map, config, program_ids, instructions) ==
    LET program_id == Head(program_ids)
        Json(list) == [k \in DOMAIN list |-> ShredJson(list[k])]
    IN IF program_ids = <<>> THEN instructions
       ELSE IF IsSome(config.program_ids) /\ ~Contains(config.program_ids[1], program_id)
       THEN ShredWalk(instruction_map, config, Tail(program_ids), instructions)
       ELSE IF IsSome(config.ignore_program_ids)
               /\ Contains(config.ignore_program_ids[1], program_id)
       THEN ShredWalk(instruction_map, config, Tail(program_ids), instructions)
       ELSE ShredWalk(instruction_map, config, Tail(program_ids),
                MapInsert(instructions, get_program_name(program_id),
                          Json(get_instructions(instruction_map, program_id))))

\* ShredParser::parse_all(tx, Some(config))
shred_parse_all(tx, config, key_order) ==
    LET Run(adapter, instruction_map, all_program_ids) ==
            LET result == [ state |-> TRUE, signature |-> signature(adapter),
                            instructions |-> EmptyMap, msg |-> None ]
            IN IF /\ IsSome(config.program_ids)
                  /\ ~\E k \in DOMAIN all_program_ids :
                         Contains(config.program_ids[1], all_program_ids[k])
               THEN result
               ELSE [result EXCEPT !.instructions =
                        ShredWalk(instruction_map, config, all_program_ids, EmptyMap)]
        Classify(adapter, instruction_map) ==
            Run(adapter, instruction_map, get_all_program_ids(instruction_map, key_order))
        Adapt(adapter) == Classify(adapter, classify_instructions(adapter))
    IN Adapt(NewAdapter(tx))

(***************************************************************************)
(* Input transactions                                                      *)
(***************************************************************************)
\* Most outer instructions of a generated transaction.
MaxOuter == 2

\* The static account keys of the generated transactions (Rust index 0 first).
TxAccountKeys ==
    << "User", JUPITER.id, RAYDIUM_V4.id, PUMP_FUN.id, TOKEN_PROGRAM_ID,
       "UserTok", "UserWsol", "PoolTok", "PoolWsol", "Amm1",
       COMPUTE_BUDGET_ID, RAYDIUM_CPMM.id,
       PUMP_SWAP.id, TOKEN_2022_PROGRAM_ID, "LooseA", "LooseB", "FeeTok", "Mint1",
       "Program1", "Program2" >>

\* Position of an address in TxAccountKeys, as a Rust index.
KeyIndex(addr) == (CHOOSE i \in DOMAIN TxAccountKeys : TxAccountKeys[i] = addr) - 1

RawInstruction(program, accounts, data) ==
    [ program_id_index |-> KeyIndex(program),
      account_key_indexes |-> [i \in DOMAIN accounts |-> KeyIndex(accounts[i])],
      data |-> data ]

\* A Jupiter self-CPI route event: the discriminator and the 112-byte layout.
JupiterRouteData(amm, input_mint, input_amount, output_mint, output_amount) ==
    JUPITER_ROUTE_EVENT \o pubkey_bytes(amm) \o pubkey_bytes(input_mint)
        \o to_le_bytes(input_amount, 8) \o pubkey_bytes(output_mint)
        \o to_le_bytes(output_amount, 8)

\* A Pumpfun trade event: the discriminator and the 105-byte fixed part.
PumpfunTradeData(mint, sol_amount, token_amount, is_buy, user, timestamp) ==
    PUMPFUN_TRADE_EVENT \o pubkey_bytes(mint) \o to_le_bytes(sol_amount, 8)
        \o to_le_bytes(token_amount, 8) \o <<is_buy>> \o pubkey_bytes(user)
        \o to_le_bytes(timestamp, 8) \o to_le_bytes(0, 8) \o to_le_bytes(0, 8)

\* An SPL Token Transfer: opcode 3 and the u64 amount.
TokenTransferData(amount) == <<SPL_TRANSFER>> \o to_le_bytes(amount, 8)

JupRouteIx == RawInstruction(JUPITER.id, <<"User">>,
                  JupiterRouteData(RAYDIUM_V4.id, SOL, 5, USDC, 7))

\* A route event one byte short: the layout does not decode.
JupShortIx == RawInstruction(JUPITER.id, <<"User">>,
                  SubSeq(JupiterRouteData(RAYDIUM_V4.id, SOL, 5, USDC, 7), 1, 127))

\* A Raydium V4 swap (instruction tag 9) over seven accounts; accounts[1] is the pool.
RaySwapIx == RawInstruction(RAYDIUM_V4.id,
                 <<TOKEN_PROGRAM_ID, "Amm1", "User", "UserTok", "UserWsol", "PoolTok", "PoolWsol">>,
                 <<9>> \o to_le_bytes(12, 8) \o to_le_bytes(1, 8))

PumpBuyIx == RawInstruction(PUMP_FUN.id, <<"User">>,
                 PumpfunTradeData("Mint1", 20, 9, 1, "User", 1700))

CpmmIx == RawInstruction(RAYDIUM_CPMM.id, <<"User", "Amm1">>, <<143, 190, 90, 218, 196, 30, 51, 222>>)

OuterInstructions == {JupRouteIx, JupShortIx, RaySwapIx, PumpBuyIx, CpmmIx}

\* TOKEN out of the user's account, wrapped SOL into the user's account.
TokenOutIx == RawInstruction(TOKEN_PROGRAM_ID, <<"UserTok", "PoolTok", "User">>,
                  TokenTransferData(12))

WsolInIx == RawInstruction(TOKEN_PROGRAM_ID, <<"PoolWsol", "UserWsol", "Amm1">>,
                TokenTransferData(30))

\* The inner-instruction sets of outer instruction 0.
InnerChoices ==
    { None,
      Some(<< [index |-> 0, instructions |-> <<TokenOutIx, WsolInIx>>] >>),
      Some(<< [index |-> 0, instructions |-> <<JupRouteIx>>] >>),
      Some(<< [index |-> 0, instructions |-> <<TokenOutIx, PumpBuyIx>>] >>) }

TokenBalance(account, mint, owner, amount) ==
    [ account_index |-> KeyIndex(account), mint |-> Some(mint), owner |-> Some(owner),
      ui_token_amount |-> [amount |-> to_string(amount), decimals |-> IF mint = SOL THEN 9 ELSE 6] ]

\* Meta with the signer's lamports and token balance changed, or unchanged.
TxMeta(changed) ==
    [ fee |-> Some(5), err |-> None, compute_units_consumed |-> Some(300),
      loaded_addresses |-> None,
      pre_balances |-> Some(<<wide(100, 4), wide(1, 4)>>),
      post_balances |-> Some(IF changed THEN <<wide(70, 4), wide(1, 4)>>
                             ELSE <<wide(100, 4), wide(1, 4)>>),
      pre_token_balances |->
          Some(<< TokenBalance("UserTok", "Mint1", "User", 40),
                  TokenBalance("User", "Mint1", "User", 3) >>),
      post_token_balances |->
          Some(<< TokenBalance("UserTok", "Mint1", "User", 28),
                  TokenBalance("UserWsol", SOL, "User", 30),
                  TokenBalance("PoolTok", "Mint1", "Amm1", 12),
                  TokenBalance("PoolWsol", SOL, "Amm1", 0),
                  TokenBalance("User", "Mint1", "User", IF changed THEN 8 ELSE 3) >>) ]

MetaChoices == {TxMeta(TRUE), TxMeta(FALSE)}

RECURSIVE SeqsUpTo(_, _)
\* The sequences over S of length 1..n.
SeqsUpTo(S, n) ==
    IF n = 0 THEN {}
    ELSE LET shorter == SeqsUpTo(S, n - 1)
         IN { <<x>> : x \in S } \cup shorter \cup { Append(q, x) : q \in shorter, x \in S }

Transactions ==
    { [ slot |-> 77, block_time |-> Some(1700), version |-> None, signatures |-> <<"Sig1">>,
        account_keys |-> TxAccountKeys, instructions |-> ixs,
        inner_instructions |-> inner, meta |-> Some(meta) ] :
      ixs \in SeqsUpTo(OuterInstructions, MaxOuter), inner \in InnerChoices,
      meta \in MetaChoices }

ConfigDefault ==
    [ try_unknown_dex |-> FALSE, program_ids |-> None, ignore_program_ids |-> None,
      throw_error |-> FALSE, aggregate_trades |-> FALSE ]

ProgramIdFilters ==
    { None, Some(<<JUPITER.id>>), Some(<<RAYDIUM_V4.id, RAYDIUM_CPMM.id>>), Some(<<PUMP_FUN.id>>),
      Some(<<TOKEN_PROGRAM_ID, "UnlistedAddress">>) }

Configs ==
    { [ConfigDefault EXCEPT !.program_ids = f, !.aggregate_trades = a] :
      f \in ProgramIdFilters, a \in BOOLEAN }
    \cup { [ConfigDefault EXCEPT !.ignore_program_ids = Some(<<PUMP_FUN.id>>), !.aggregate_trades = a] :
           a \in BOOLEAN }

(***************************************************************************)
(* Input trade lists                                                       *)
(***************************************************************************)
\* Most trades of a generated trade list.
MaxTrades == 3

\* A TradeInfo as the decoders build it: amount_raw is u64::to_string.
SampleTrade(idx, sig, leg) ==
    [ user |-> "User",
      trade_type |-> get_trade_type(leg.input_mint, leg.output_mint),
      pool |-> leg.pool,
      input_token |-> [mint |-> leg.input_mint, amount_raw |-> to_string(leg.input_amount),
                       decimals |-> IF leg.input_mint = SOL THEN 9 ELSE 6],
      output_token |-> [mint |-> leg.output_mint, amount_raw |-> to_string(leg.output_amount),
                        decimals |-> IF leg.output_mint = SOL THEN 9 ELSE 6],
      fee |-> None,
      program_id |-> Some(PUMP_FUN.id),
      amm |-> Some(PUMP_FUN.name),
      route |-> None,
      slot |-> 77,
      timestamp |-> 1700,
      signature |-> sig,
      idx |-> idx,
      signer |-> Some(<<"User">>) ]

SampleLegs ==
    { [input_mint |-> SOL, input_amount |-> 5, output_mint |-> "Mint1", output_amount |-> 7,
       pool |-> <<"Amm1">>],
      [input_mint |-> "Mint1", input_amount |-> 7, output_mint |-> USDC, output_amount |-> 11,
       pool |-> <<>>],
      [input_mint |-> "Mint1", input_amount |-> 96, output_mint |-> SOL, output_amount |-> 4,
       pool |-> <<"Amm1">>] }

\* idx and signature of the sampled trades: "1-10" sorts behind "1-2".
SampleKeys ==
    { << <<"0", "-", "0">>, "Sig1" >>, << <<"0", "-", "0">>, "Sig2" >>,
      << <<"1", "-", "2">>, "Sig1" >>, << <<"1", "-", "1", "0">>, "Sig1" >> }

SampleTrades == { SampleTrade(k[1], k[2], leg) : k \in SampleKeys, leg \in SampleLegs }

TradeLists == {<<>>} \cup SeqsUpTo(SampleTrades, MaxTrades)

(***************************************************************************)
(* The state machine: one call of DexParser on a transaction               *)
(***************************************************************************)
VARIABLES tx, config, key_order, pc, result, trades_in, dex_args

vars == <<tx, config, key_order, pc, result, trades_in, dex_args, args>>

\* The keys of the classifier's instruction_map for the transaction.
MapKeys(t) == DOMAIN classify_instructions(NewAdapter(t))

Init ==
    /\ tx \in Transactions
    /\ config \in Configs
    /\ key_order = <<>>
    /\ pc = "ready"
    /\ result = None
    /\ trades_in = <<>>
    /\ dex_args = <<None, None>>
    /\ args = None

\* DexParser::parse_all(tx, Some(config)); the HashMap built in this call
\* enumerates its keys in some order.
ParseAll ==
    /\ pc = "ready"
    /\ \E order \in Orders(MapKeys(tx)) :
          /\ key_order' = order
          /\ result' = parse_all(tx, config, order)
    /\ pc' = "parse_all"
    /\ UNCHANGED <<tx, config, trades_in, dex_args, args>>

\* DexParser::parse_trades(tx, Some(config))
ParseTrades ==
    /\ pc = "ready"
    /\ \E order \in Orders(MapKeys(tx)) :
          /\ key_order' = order
          /\ result' = parse_trades(tx, config, order)
    /\ pc' = "parse_trades"
    /\ UNCHANGED <<tx, config, trades_in, dex_args, args>>

Next == ParseAll \/ ParseTrades

Spec == Init /\ [][Next]_vars

(***************************************************************************)
(* The state machine of the trade-list steps: deduplication, aggregation   *)
(***************************************************************************)
InitAgg ==
    /\ trades_in \in TradeLists
    /\ dex_args = <<None, None>>
    /\ tx = None
    /\ config = ConfigDefault
    /\ key_order = <<>>
    /\ pc = "ready"
    /\ result = None
    /\ args = None

\* dex_parser.rs 178-187 on the trade list.
Dedup ==
    /\ pc = "ready"
    /\ result' = DedupTrades(trades_in)
    /\ pc' = "dedup"
    /\ UNCHANGED <<tx, config, key_order, trades_in, dex_args, args>>

\* dex_parser.rs 178-187 on the trade list concatenated with itself.
DedupDoubled ==
    /\ pc = "ready"
    /\ result' = DedupTrades(trades_in \o trades_in)
    /\ pc' = "dedup_doubled"
    /\ UNCHANGED <<tx, config, key_order, trades_in, dex_args, args>>

\* get_final_swap(trades, dex_amm, dex_route)
FinalSwap ==
    /\ pc = "ready"
    /\ \E dex_amm \in {None, Some(RAYDIUM_V4.name)}, dex_route \in {None, Some(JUPITER.name)} :
          /\ dex_args' = <<dex_amm, dex_route>>
          /\ result' = get_final_swap(trades_in, dex_amm, dex_route)
    /\ pc' = "final_swap"
    /\ UNCHANGED <<tx, config, key_order, trades_in, args>>

\* sort_by_idx(trades, |t| t.idx)
SortByIdx ==
    /\ pc = "ready"
    /\ result' = sort_by_idx([i \in DOMAIN trades_in |-> <<trades_in[i], trades_in[i].idx>>])
    /\ pc' = "sort_by_idx"
    /\ UNCHANGED <<tx, config, key_order, trades_in, dex_args, args>>

NextAgg == Dedup \/ DedupDoubled \/ FinalSwap \/ SortByIdx

SpecAgg == InitAgg /\ [][NextAgg]_vars

(***************************************************************************)
(* The state machine of swap reconciliation: process_swap_data on a list   *)
(* of transfer records                                                     *)
(***************************************************************************)
\* Most transfer records of a generated list.
MaxTransfers == 3

\* The transaction whose adapter reconciliation reads decimals and signer from.
SwapTx ==
    [ slot |-> 77, block_time |-> Some(1700), version |-> None, signatures |-> <<"Sig1">>,
      account_keys |-> TxAccountKeys, instructions |-> <<>>,
      inner_instructions |-> None, meta |-> Some(TxMeta(FALSE)) ]

\* A TransferData as parse_compiled_action and the fee tagging build it.
SampleTransfer(mint, amount, destination, destination_owner) ==
    TagFee([ transfer_type |-> "transfer",
             program_id |-> TOKEN_PROGRAM_ID,
             info |-> [ authority |-> Some("User"),
                        destination |-> destination,
                        destination_owner |-> destination_owner,
                        mint |-> mint,
                        source |-> "UserTok",
                        token_amount |-> [amount |-> to_string(amount), decimals |-> 6] ],
             idx |-> InnerIdx(0, 0),
             is_fee |-> None ])

\* One of the fee-recipient accounts of FEE_ACCOUNTS.
FeeRecipient == "96gYZGLnJYVFmbjzopPSU6QiEV5fGqZNyN9nmNhvrZU5"

SampleTransfers ==
    { SampleTransfer(SOL, 5, "PoolWsol", Some("Amm1")),
      SampleTransfer(SOL, 7, "PoolWsol", Some("Amm1")),
      SampleTransfer("Mint1", 5, "PoolTok", Some("Amm1")),
      SampleTransfer("Mint1", 7, "PoolTok", None),
      SampleTransfer(USDC, 5, "PoolTok", None),
      SampleTransfer(NATIVE, 5, "Amm1", None),
      SampleTransfer(SOL, 3, FeeRecipient, None),
      SampleTransfer("Mint1", 7, "FeeTok", Some(FeeRecipient)),
      SampleTransfer(USDC, 9, "FeeTok", Some(FeeRecipient)) }

\* The records of one group key carry the idx of their instruction.
TransferLists ==
    { [i \in DOMAIN L |-> [L[i] EXCEPT !.idx = InnerIdx(0, i - 1)]] :
      L \in {<<>>} \cup SeqsUpTo(SampleTransfers, MaxTransfers) }

InitSwap ==
    /\ tx = SwapTx
    /\ args \in { [ transfers |-> L, skip_native |-> b,
                     dex_info |-> [ program_id |-> Some(RAYDIUM_V4.id),
                                    amm |-> Some(RAYDIUM_V4.name), route |-> None ] ] :
                   L \in TransferLists, b \in BOOLEAN }
    /\ config = ConfigDefault
    /\ key_order = <<>>
    /\ pc = "ready"
    /\ result = None
    /\ trades_in = <<>>
    /\ dex_args = <<None, None>>

\* TransactionUtils::process_swap_data(transfers, dex_info, skip_native)
ProcessSwap ==
    /\ pc = "ready"
    /\ result' = process_swap_data(NewAdapter(tx), args.transfers, args.dex_info,
                                   args.skip_native)
    /\ pc' = "process_swap_data"
    /\ UNCHANGED <<tx, config, key_order, trades_in, dex_args, args>>

NextSwap == ProcessSwap

SpecSwap == InitSwap /\ [][NextSwap]_vars

(***************************************************************************)
(* The state machine of transfer extraction: get_transfer_actions on a     *)
(* transaction whose outer instruction 0 carries inner token instructions  *)
(***************************************************************************)
\* Most inner instructions of a generated inner-instruction set.
MaxInner == 2

\* An SPL Token TransferChecked: opcode 12, the u64 amount and the decimals.
TokenTransferCheckedData(amount, decimals) ==
    <<SPL_TRANSFER_CHECKED>> \o to_le_bytes(amount, 8) \o <<decimals>>

\* Token and Token-2022 instructions: transfers between accounts with and
\* without a token balance entry, checked transfers, short ones.
InnerTokenInstructions ==
    { RawInstruction(program, <<"UserTok", "PoolTok", "User">>, TokenTransferData(12)) :
        program \in {TOKEN_PROGRAM_ID, TOKEN_2022_PROGRAM_ID} }
    \cup { RawInstruction(program, <<"UserTok", "Mint1", "LooseA", "User">>,
                          TokenTransferCheckedData(300, 6)) :
             program \in {TOKEN_PROGRAM_ID, TOKEN_2022_PROGRAM_ID} }
    \cup { RawInstruction(TOKEN_PROGRAM_ID, <<"LooseA", "LooseB", "User">>, TokenTransferData(5)),
           RawInstruction(TOKEN_PROGRAM_ID, <<"UserTok", "PoolTok", "User">>,
                          SubSeq(TokenTransferData(12), 1, 8)),
           RawInstruction(TOKEN_PROGRAM_ID, <<"UserTok">>, TokenTransferData(12)),
           RawInstruction(TOKEN_PROGRAM_ID, <<"UserTok", "Mint1">>,
                          TokenTransferCheckedData(300, 6)) }

TransferTxs ==
    { [ slot |-> 77, block_time |-> Some(1700), version |-> None, signatures |-> <<"Sig1">>,
        account_keys |-> TxAccountKeys, instructions |-> <<RaySwapIx>>,
        inner_instructions |-> Some(<< [index |-> 0, instructions |-> inner] >>),
        meta |-> Some(meta) ] :
      inner \in SeqsUpTo(InnerTokenInstructions, MaxInner), meta \in MetaChoices }

InitTransfers ==
    /\ tx \in TransferTxs
    /\ config = ConfigDefault
    /\ key_order = <<>>
    /\ pc = "ready"
    /\ result = None
    /\ trades_in = <<>>
    /\ dex_args = <<None, None>>
    /\ args = None

\* TransactionUtils::new(&adapter).get_transfer_actions(&[])
TransferActions ==
    /\ pc = "ready"
    /\ result' = get_transfer_actions(NewAdapter(tx))
    /\ pc' = "get_transfer_actions"
    /\ UNCHANGED <<tx, config, key_order, trades_in, dex_args, args>>

NextTransfers == TransferActions

SpecTransfers == InitTransfers /\ [][NextTransfers]_vars

(***************************************************************************)
(* The state machine of one decoder: the trades the program walk gets from *)
(* the decoder of one program ID                                           *)
(***************************************************************************)
\* Most event instructions of a generated transaction.
MaxEvents == 2

RECURSIVE LeRun(_, _)
\* The little-endian encodings of the values, one after the other.
LeRun(values, w) ==
    IF values = <<>> THEN <<>>
    ELSE to_le_bytes(Head(values), w) \o LeRun(Tail(values), w)

RECURSIVE PubkeyRun(_)
PubkeyRun(addrs) ==
    IF addrs = <<>> THEN <<>>
    ELSE pubkey_bytes(Head(addrs)) \o PubkeyRun(Tail(addrs))

\* A Pumpswap buy or sell event: the discriminator, the timestamp, thirteen
\* u64 and six addresses (320 bytes).
PumpswapEventData(discriminator, nums, keys) ==
    discriminator \o to_le_bytes(1700, 8) \o LeRun(nums, 8) \o PubkeyRun(keys)

\* The 48-byte trailer: coin creator, its fee basis points, its fee.
PumpswapTrailer(coin_creator_fee) ==
    pubkey_bytes("BondingUser") \o to_le_bytes(25, 8) \o to_le_bytes(coin_creator_fee, 8)

\* u64 number 1 is the base amount, 11 the protocol fee (3), 12 and 13 the
\* quote amounts; the keys are pool, user, the user's base and quote token
\* accounts, the protocol fee recipient and its token account.
PumpswapEvent(discriminator, fee_account) ==
    PumpswapEventData(discriminator, <<40, 0, 0, 0, 0, 0, 0, 0, 0, 0, 3, 21, 19>>,
        <<"Amm1", "User", "UserTok", "UserWsol", "BondingUser", fee_account>>)

PumpswapInstructions ==
    { RawInstruction(PUMP_SWAP.id, <<"User">>, data) :
        data \in { PumpswapEvent(d, "PoolWsol") \o t :
                     d \in {PUMPSWAP_BUY_EVENT, PUMPSWAP_SELL_EVENT},
                     t \in {<<>>, PumpswapTrailer(2)} }
                 \cup { PumpswapEvent(PUMPSWAP_BUY_EVENT, "Amm1"),
                        PumpswapEvent(PUMPSWAP_SELL_EVENT, "PoolWsol")
                            \o SubSeq(PumpswapTrailer(2), 1, 47),
                        SubSeq(PumpswapEvent(PUMPSWAP_BUY_EVENT, "PoolWsol"), 1, 319) } }

\* The 58-byte trailer of a Pumpfun trade event; feeLamports are its last u64.
PumpfunTrailer(fee_lamports) ==
    to_le_bytes(0, 8) \o to_le_bytes(0, 8) \o pubkey_bytes("BondingUser")
        \o to_le_bytes(100, 2) \o to_le_bytes(fee_lamports, 8)

PumpfunInstructions ==
    { RawInstruction(PUMP_FUN.id, <<"User">>, data) :
        data \in { PumpfunTradeData("Mint1", 20, 9, b, "User", 1650) \o t :
                     b \in {0, 1}, t \in {<<>>, PumpfunTrailer(4)} }
                 \cup { PumpfunTradeData("Mint1", 20, 9, 2, "User", 1650),
                        PumpfunTradeData("Mint1", 20, 9, 1, "User", 1650)
                            \o SubSeq(PumpfunTrailer(4), 1, 57),
                        SubSeq(PumpfunTradeData("Mint1", 20, 9, 1, "User", 1650), 1, 120) } }

DecoderTxs ==
    { [ slot |-> 77, block_time |-> Some(1700), version |-> None, signatures |-> <<"Sig1">>,
        account_keys |-> TxAccountKeys, instructions |-> ixs,
        inner_instructions |-> None, meta |-> meta ] :
      ixs \in SeqsUpTo(PumpswapInstructions, MaxEvents)
                 \cup SeqsUpTo(PumpfunInstructions, MaxEvents),
      meta \in {Some(TxMeta(FALSE)), None} }

\* args.program_id is the program ID whose decoder runs.
InitDecoder ==
    /\ tx \in DecoderTxs
    /\ args = [program_id |-> TxAccountKeys[tx.instructions[1].program_id_index + 1]]
    /\ config = ConfigDefault
    /\ key_order = <<>>
    /\ pc = "ready"
    /\ result = None
    /\ trades_in = <<>>
    /\ dex_args = <<None, None>>

\* One round of the program walk of parse_with_classifier: the process_trades
\* of the decoder of args.program_id over the classified instructions.
DecodeTrades ==
    /\ pc = "ready"
    /\ \E order \in Orders(MapKeys(tx)) :
          LET Decode(adapter, instruction_map) ==
                  DecodeProgram(adapter, instruction_map, get_transfer_actions(adapter),
                                get_dex_info(instruction_map, order), args.program_id)
              Adapt(adapter) == Decode(adapter, classify_instructions(adapter))
          IN /\ key_order' = order
             /\ result' = Adapt(NewAdapter(tx))
    /\ pc' = "process_trades"
    /\ UNCHANGED <<tx, config, trades_in, dex_args, args>>

NextDecoder == DecodeTrades

SpecDecoder == InitDecoder /\ [][NextDecoder]_vars

(***************************************************************************)
(* The state machine of scenario S1: DexParser on a transaction whose only *)
(* instruction is an outer Jupiter route event                             *)
(***************************************************************************)
\* Token balances without an entry of USDC, or no meta at all.
S1Metas == {None} \cup { Some(m) : m \in MetaChoices }

S1Transactions ==
    { [ slot |-> 77, block_time |-> time, version |-> None, signatures |-> <<"Sig1">>,
        account_keys |-> TxAccountKeys,
        instructions |-> << RawInstruction(JUPITER.id, <<"User">>,
                                JupiterRouteData(amm, SOL, 1000000000, USDC, 150000000)) >>,
        inner_instructions |-> None, meta |-> meta ] :
      amm \in {RAYDIUM_V4.id, PUMP_FUN.id, "Amm1"}, time \in {None, Some(1700)},
      meta \in S1Metas }

InitS1 ==
    /\ tx \in S1Transactions
    /\ config \in Configs
    /\ key_order = <<>>
    /\ pc = "ready"
    /\ result = None
    /\ trades_in = <<>>
    /\ dex_args = <<None, None>>
    /\ args = None

SpecS1 == InitS1 /\ [][Next]_vars

(***************************************************************************)
(* The state machine of the trade type: get_trade_type and the producers   *)
(* of trades, each applied to inputs over the same mints                   *)
(***************************************************************************)
KindMints == {SOL, USDC, "Mint1"}

\* One outer instruction: a Jupiter route event from in_mint to out_mint, or a
\* Pumpswap buy (sell) event whose quote (base) token account holds in_mint
\* and whose base (quote) token account holds out_mint.
KindTx(program, sell, in_mint, out_mint) ==
    [ slot |-> 77, block_time |-> Some(1700), version |-> None, signatures |-> <<"Sig1">>,
      account_keys |-> TxAccountKeys,
      instructions |->
          << IF program = JUPITER.id
             THEN RawInstruction(JUPITER.id, <<"User">>,
                                 JupiterRouteData("Amm1", in_mint, 5, out_mint, 7))
             ELSE RawInstruction(PUMP_SWAP.id, <<"User">>,
                      PumpswapEvent(IF sell THEN PUMPSWAP_SELL_EVENT ELSE PUMPSWAP_BUY_EVENT,
                                    "PoolWsol")) >>,
      inner_instructions |-> None,
      meta |-> Some([ TxMeta(FALSE) EXCEPT
                        !.post_token_balances =
                            Some(<< TokenBalance("UserTok", IF sell THEN in_mint ELSE out_mint,
                                                 "User", 28),
                                    TokenBalance("UserWsol", IF sell THEN out_mint ELSE in_mint,
                                                 "User", 30),
                                    TokenBalance("PoolWsol", SOL, "Amm1", 0) >>) ]) ]

\* The trades the Pumpfun decoder builds from an event of the mint.
KindTrades ==
    { PumpfunTradeOfEvent(NewAdapter(SwapTx),
                          [program_id |-> Some(PUMP_FUN.id), amm |-> Some(PUMP_FUN.name),
                           route |-> None],
                          [outer_index |-> 0, inner_index |-> None],
                          [ mint |-> mint, sol_amount |-> wide(20, 4), token_amount |-> wide(9, 4),
                            is_buy |-> is_buy, user |-> "User", timestamp |-> 1650,
                            bonding_curve |-> None, fee |-> None ]) :
      mint \in {"Mint1", SOL}, is_buy \in BOOLEAN }

InitKinds ==
    /\ \E program \in {JUPITER.id, PUMP_SWAP.id}, sell \in BOOLEAN,
          in_mint \in KindMints, out_mint \in KindMints :
          /\ tx = KindTx(program, sell, in_mint, out_mint)
          /\ args = [ program_id |-> program, in_mint |-> in_mint, out_mint |-> out_mint,
                      transfers |->
                          << [SampleTransfer(in_mint, 5, "PoolTok", None)
                                 EXCEPT !.idx = InnerIdx(0, 0)],
                             [SampleTransfer(out_mint, 7, "UserTok", None)
                                 EXCEPT !.idx = InnerIdx(0, 1)] >>,
                      skip_native |-> FALSE,
                      dex_info |-> [ program_id |-> Some(RAYDIUM_V4.id),
                                     amm |-> Some(RAYDIUM_V4.name), route |-> None ] ]
    /\ trades_in \in SeqsUpTo(KindTrades, 2)
    /\ config = ConfigDefault
    /\ key_order = <<>>
    /\ pc = "ready"
    /\ result = None
    /\ dex_args = <<None, None>>

\* get_trade_type(in_mint, out_mint)
TradeType ==
    /\ pc = "ready"
    /\ result' = get_trade_type(args.in_mint, args.out_mint)
    /\ pc' = "get_trade_type"
    /\ UNCHANGED <<tx, config, key_order, trades_in, dex_args, args>>

NextKinds == TradeType \/ DecodeTrades \/ ProcessSwap \/ FinalSwap

SpecKinds == InitKinds /\ [][NextKinds]_vars

(***************************************************************************)
(* The state machine of the token balance-change report                    *)
(***************************************************************************)
\* Most entries of a generated token-balance snapshot.
MaxBalances == 2

BalanceChoices ==
    { TokenBalance("UserTok", "Mint1", "User", amount) : amount \in {0, 28, 40} }
    \cup { TokenBalance("UserWsol", SOL, "User", 30) }

\* A snapshot has one entry for an account at most.
Snapshots ==
    { L \in {<<>>} \cup SeqsUpTo(BalanceChoices, MaxBalances) :
        \A i, j \in DOMAIN L : i # j => L[i].account_index # L[j].account_index }

BalanceTxs ==
    { [ slot |-> 77, block_time |-> Some(1700), version |-> None, signatures |-> <<"Sig1">>,
        account_keys |-> TxAccountKeys, instructions |-> <<>>,
        inner_instructions |-> None,
        meta |-> Some([ TxMeta(FALSE) EXCEPT !.pre_token_balances = Some(pre),
                                             !.post_token_balances = Some(post) ]) ] :
      pre \in Snapshots, post \in Snapshots }

InitBalances ==
    /\ tx \in BalanceTxs
    /\ config = ConfigDefault
    /\ key_order = <<>>
    /\ pc = "ready"
    /\ result = None
    /\ trades_in = <<>>
    /\ dex_args = <<None, None>>
    /\ args = None

\* adapter.get_account_token_balance_changes(true)
TokenBalanceChanges ==
    /\ pc = "ready"
    /\ result' = get_account_token_balance_changes(NewAdapter(tx))
    /\ pc' = "token_balance_changes"
    /\ UNCHANGED <<tx, config, key_order, trades_in, dex_args, args>>

NextBalances == TokenBalanceChanges

SpecBalances == InitBalances /\ [][NextBalances]_vars

(***************************************************************************)
(* The state machine of the Pumpswap decoder over the range of the fees    *)
(***************************************************************************)
RECURSIVE wide_to_le_bytes(_)
\* The little-endian bytes of a wide value (the input builder's side).
wide_to_le_bytes(x) ==
    IF x = <<>> THEN <<>>
    ELSE <<Head(x) % 256, Head(x) \div 256>> \o wide_to_le_bytes(Tail(x))

\* 1, 3, 2^63 and 2^64 - 1.
FeeChoices == {wide(1, 4), wide(3, 4), I64_MIN, U64_MAX}

\* A Pumpswap event with the trailer: protocol_fee is the eleventh u64 behind
\* the timestamp, coin_creator_fee the last u64 of the trailer.
PumpswapFeeEvent(discriminator, protocol_fee, coin_creator_fee) ==
    LET Build(base) ==
            SubSeq(base, 1, 16 + 8 + 80) \o wide_to_le_bytes(protocol_fee)
                \o SubSeq(base, 16 + 8 + 88 + 1, Len(base))
                \o pubkey_bytes("BondingUser") \o to_le_bytes(25, 8)
                \o wide_to_le_bytes(coin_creator_fee)
    IN Build(PumpswapEvent(discriminator, "PoolWsol"))

FeeInstructions ==
    { RawInstruction(PUMP_SWAP.id, <<"User">>, PumpswapFeeEvent(d, protocol_fee, creator_fee)) :
        d \in {PUMPSWAP_BUY_EVENT, PUMPSWAP_SELL_EVENT},
        protocol_fee \in FeeChoices, creator_fee \in FeeChoices }

FeeTxs ==
    { [ slot |-> 77, block_time |-> Some(1700), version |-> None, signatures |-> <<"Sig1">>,
        account_keys |-> TxAccountKeys, instructions |-> ixs,
        inner_instructions |-> None, meta |-> Some(TxMeta(FALSE)) ] :
      ixs \in SeqsUpTo(FeeInstructions, MaxEvents) }

InitFees ==
    /\ tx \in FeeTxs
    /\ args \in { [program_id |-> PUMP_SWAP.id, overflow_checks |-> checks] :
                    checks \in BOOLEAN }
    /\ config = ConfigDefault
    /\ key_order = <<>>
    /\ pc = "ready"
    /\ result = None
    /\ trades_in = <<>>
    /\ dex_args = <<None, None>>

NextFees == DecodeTrades

SpecFees == InitFees /\ [][NextFees]_vars

(***************************************************************************)
(* The state machine of sort_by_idx over idx strings of every shape        *)
(***************************************************************************)
\* Most items of a generated list.
MaxSort == 3

\* "2-9", "2-10", "9", "10", "2" (no second segment), "" (no segment), "-1"
\* (an empty first segment).
IdxChoices ==
    { <<"2", "-", "9">>, <<"2", "-", "1", "0">>, <<"9">>, <<"1", "0">>, <<"2">>, <<>>,
      <<"-", "1">> }

SortItems == { [item |-> name, idx |-> idx] : name \in {"a", "b"}, idx \in IdxChoices }

InitSort ==
    /\ trades_in \in SeqsUpTo(SortItems, MaxSort)
    /\ dex_args = <<None, None>>
    /\ tx = None
    /\ config = ConfigDefault
    /\ key_order = <<>>
    /\ pc = "ready"
    /\ result = None
    /\ args = None

NextSort == SortByIdx

SpecSort == InitSort /\ [][NextSort]_vars

(***************************************************************************)
(* The state machine of the shred parser                                   *)
(***************************************************************************)
\* Most outer instructions of a generated shred transaction.
MaxShred == 3

\* Two programs no table lists, a DEX, and a system program.
ShredInstructions ==
    { RawInstruction(program, <<"User">>, <<1>>) :
        program \in {"Program1", "Program2", RAYDIUM_V4.id, COMPUTE_BUDGET_ID} }

ShredTxs ==
    { [ slot |-> 77, block_time |-> Some(1700), version |-> None, signatures |-> <<"Sig1">>,
        account_keys |-> TxAccountKeys, instructions |-> ixs,
        inner_instructions |-> inner, meta |-> None ] :
      ixs \in SeqsUpTo(ShredInstructions, MaxShred),
      inner \in { None,
                  Some(<< [ index |-> 0,
                            instructions |-> <<RawInstruction("Program2", <<"User">>, <<2>>)>> ] >>) } }

ShredConfigs ==
    { [ConfigDefault EXCEPT !.program_ids = f] :
        f \in { None, Some(<<"Program1">>), Some(<<"Program1", "Program2">>),
                Some(<<JUPITER.id>>) } }
    \cup { [ConfigDefault EXCEPT !.ignore_program_ids = Some(<<"Program2">>)] }

InitShred ==
    /\ tx \in ShredTxs
    /\ config \in ShredConfigs
    /\ key_order = <<>>
    /\ pc = "ready"
    /\ result = None
    /\ trades_in = <<>>
    /\ dex_args = <<None, None>>
    /\ args = None

\* ShredParser::parse_all(tx, Some(config)); the HashMap built in this call
\* enumerates its keys in some order.
ShredParseAll ==
    /\ pc = "ready"
    /\ \E order \in Orders(MapKeys(tx)) :
          /\ key_order' = order
          /\ result' = shred_parse_all(tx, config, order)
    /\ pc' = "shred_parse_all"
    /\ UNCHANGED <<tx, config, trades_in, dex_args, args>>

NextShred == ShredParseAll

SpecShred == InitShred /\ [][NextShred]_vars

(***************************************************************************)
(* The state machine of a BinaryReader: any sequence of reads on a buffer  *)
(***************************************************************************)
\* Most bytes of a generated buffer, and the longest read_fixed_array asked.
MaxData == 34
MaxRead == 3

\* The buffer of n bytes that repeats a pattern.
Cycle(pattern, n) == [i \in 1..n |-> pattern[((i - 1) % Len(pattern)) + 1]]

\* A string of two characters with its length prefix; a prefix of 9 and of
\* 1684300900; all zero; seven distinct bytes.
BytePatterns ==
    { <<2, 0, 0, 0, 65, 66>>, <<9, 0, 0, 0>>, <<100>>, <<0>>, <<1, 2, 3, 4, 5, 6, 126>> }

Buffers == { Cycle(pattern, n) : pattern \in BytePatterns, n \in 0..MaxData }

\* args.reader is the reader a call is made on, args.length the length it is
\* asked for; result is what the call returns, with the reader it leaves.
InitReader ==
    /\ args \in { [reader |-> BinaryReaderNew(data), length |-> 0] : data \in Buffers }
    /\ pc = "ready"
    /\ result = None
    /\ tx = None
    /\ config = ConfigDefault
    /\ key_order = <<>>
    /\ trades_in = <<>>
    /\ dex_args = <<None, None>>

\* The reader as the last call left it.
Reader == IF pc = "ready" THEN args.reader ELSE result.reader

ReadFixedArray ==
    /\ \E length \in 0..MaxRead :
          /\ args' = [reader |-> Reader, length |-> length]
          /\ result' = read_fixed_array(Reader, length)
    /\ pc' = "read_fixed_array"
    /\ UNCHANGED <<tx, config, key_order, trades_in, dex_args>>

ReadU8 ==
    /\ args' = [reader |-> Reader, length |-> 1]
    /\ result' = read_u8(Reader)
    /\ pc' = "read_u8"
    /\ UNCHANGED <<tx, config, key_order, trades_in, dex_args>>

ReadU16Le ==
    /\ args' = [reader |-> Reader, length |-> 2]
    /\ result' = read_u16_le(Reader)
    /\ pc' = "read_u16_le"
    /\ UNCHANGED <<tx, config, key_order, trades_in, dex_args>>

ReadU32Le ==
    /\ args' = [reader |-> Reader, length |-> 4]
    /\ result' = read_u32_le(Reader)
    /\ pc' = "read_u32_le"
    /\ UNCHANGED <<tx, config, key_order, trades_in, dex_args>>

ReadU64Le ==
    /\ args' = [reader |-> Reader, length |-> 8]
    /\ result' = read_u64_le(Reader)
    /\ pc' = "read_u64_le"
    /\ UNCHANGED <<tx, config, key_order, trades_in, dex_args>>

ReadI64Le ==
    /\ args' = [reader |-> Reader, length |-> 8]
    /\ result' = read_i64_le(Reader)
    /\ pc' = "read_i64_le"
    /\ UNCHANGED <<tx, config, key_order, trades_in, dex_args>>

ReadPubkey ==
    /\ args' = [reader |-> Reader, length |-> 32]
    /\ result' = read_pubkey(Reader)
    /\ pc' = "read_pubkey"
    /\ UNCHANGED <<tx, config, key_order, trades_in, dex_args>>

\* args.length is the 4 bytes of the length prefix.
ReadStringU32Len ==
    /\ args' = [reader |-> Reader, length |-> 4]
    /\ result' = read_string_u32_len(Reader)
    /\ pc' = "read_string_u32_len"
    /\ UNCHANGED <<tx, config, key_order, trades_in, dex_args>>

NextReader ==
    \/ ReadFixedArray \/ ReadU8 \/ ReadU16Le \/ ReadU32Le \/ ReadU64Le \/ ReadI64Le
    \/ ReadPubkey \/ ReadStringU32Len

SpecReader == InitReader /\ [][NextReader]_vars

(***************************************************************************)
(* The state machine of the SOL balance-change report                      *)
(***************************************************************************)
\* Most entries of a generated lamport-balance list.
MaxLamports == 2

\* 0, 70, 2^63 - 1, 2^63 and 2^64 - 1 lamports.
LamportChoices == {U64_ZERO, wide(70, 4), I64_MAX, I64_MIN, U64_MAX}

LamportLists == {<<>>} \cup SeqsUpTo(LamportChoices, MaxLamports)

SolTxs ==
    { [ slot |-> 77, block_time |-> Some(1700), version |-> None, signatures |-> <<"Sig1">>,
        account_keys |-> TxAccountKeys, instructions |-> <<>>,
        inner_instructions |-> None,
        meta |-> Some([ TxMeta(FALSE) EXCEPT !.pre_balances = Some(pre),
                                             !.post_balances = Some(post) ]) ] :
      pre \in LamportLists, post \in LamportLists }

InitSol ==
    /\ tx \in SolTxs
    /\ config = ConfigDefault
    /\ key_order = <<>>
    /\ pc = "ready"
    /\ result = None
    /\ trades_in = <<>>
    /\ dex_args = <<None, None>>
    /\ args \in { [overflow_checks |-> checks] : checks \in BOOLEAN }

\* adapter.get_account_sol_balance_changes(true)
SolBalanceChanges ==
    /\ pc = "ready"
    /\ result' = get_account_sol_balance_changes(NewAdapter(tx))
    /\ pc' = "sol_balance_changes"
    /\ UNCHANGED <<tx, config, key_order, trades_in, dex_args, args>>

NextSol == SolBalanceChanges

SpecSol == InitSol /\ [][NextSol]_vars

(***************************************************************************)
(* The run a parse_all state came from                                     *)
(***************************************************************************)
RunAdapter == NewAdapter(tx)
RunMap == classify_instructions(RunAdapter)
RunDexInfo == get_dex_info(RunMap, key_order)
RunTransfers == get_transfer_actions(RunAdapter)

\* What the Jupiter fast path returns for this run, if it returns.
RunFastPath ==
    JupiterFastPath(RunAdapter, RunMap, RunTransfers, RunDexInfo, config,
                    ResultSkeleton(RunAdapter))

\* The trades the program walk collects for this run, before deduplication.
RunWalked ==
    WalkPrograms(RunAdapter, RunMap, RunTransfers, RunDexInfo, config,
                 get_all_program_ids(RunMap, key_order))

\* The program IDs the transaction's outer and inner instructions name.
InvokedProgramIds ==
    LET keys == extract_account_keys(tx)
        inner == UnwrapOr(tx.inner_instructions, <<>>)
        outer_ids == { UnwrapOr(KeyAt(keys, tx.instructions[i].program_id_index), "") :
                       i \in DOMAIN tx.instructions }
        inner_ids == UNION { { UnwrapOr(KeyAt(keys, inner[i].instructions[j].program_id_index), "") :
                               j \in DOMAIN inner[i].instructions } : i \in DOMAIN inner }
    IN (outer_ids \cup inner_ids) \ {""}

SurvivingProgramIds == InvokedProgramIds \ (SYSTEM_PROGRAMS \cup SKIP_PROGRAM_IDS)

SeqRange(q) == { q[i] : i \in DOMAIN q }

RECURSIVE IsSubsequence(_, _)
\* a is b with some elements left out.
IsSubsequence(a, b) ==
    IF a = <<>> THEN TRUE
    ELSE IF b = <<>> THEN FALSE
    ELSE IF Head(a) = Head(b) THEN IsSubsequence(Tail(a), Tail(b))
    ELSE IsSubsequence(a, Tail(b))

\* The (idx, signature) key of a trade.
TradeKey(t) == <<t.idx, t.signature>>

RECURSIVE AtIndexes(_, _)
\* The elements of L at the index set keep, in list order.
AtIndexes(L, keep) ==
    IF keep = {} THEN <<>>
    ELSE LET i == CHOOSE x \in keep : \A y \in keep : x <= y
         IN <<L[i]>> \o AtIndexes(L, keep \ {i})

\* For each key the first trade in list order, the kept trades in list order.
FirstOccurrences(L) ==
    AtIndexes(L, { i \in DOMAIN L : \A j \in 1..(i - 1) : TradeKey(L[j]) # TradeKey(L[i]) })

NoDuplicateKeys(L) == \A i, j \in DOMAIN L : i # j => TradeKey(L[i]) # TradeKey(L[j])

\* The S2 transaction: one outer Raydium V4 swap over seven accounts, its inner
\* set holding the TOKEN transfer out and the wrapped-SOL transfer in.
IsS2 ==
    /\ tx.instructions = <<RaySwapIx>>
    /\ tx.inner_instructions = Some(<< [index |-> 0, instructions |-> <<TokenOutIx, WsolInIx>>] >>)
    /\ config.program_ids = None
    /\ config.ignore_program_ids = None

(***************************************************************************)
(* Claims                                                                  *)
(***************************************************************************)
\* C1: for the S2 transaction (one outer Raydium V4 swap with more than 5
\* accounts, two inner Token transfers of different mints) parse_all returns
\* exactly one trade, a Sell, whose pool is accounts[1] of the outer instruction.
C1_S2OneSellTrade ==
    (pc = "parse_all" /\ IsS2) =>
        /\ Len(result.trades) = 1
        /\ result.trades[1].trade_type = "Sell"
        /\ result.trades[1].pool = <<"Amm1">>

\* C2: parse_all returns the same ParseResult for the same transaction and
\* config, whatever order the classifier's map enumerates its keys in.
C2_Deterministic ==
    pc = "parse_all" =>
        \A order \in Orders(MapKeys(tx)) : parse_all(tx, config, order) = result

\* C3: when Jupiter is invoked, one of its instructions decodes to a route-event
\* trade and aggregate_trades is true, parse_all returns aggregate_trade = Some
\* and an empty trades list, also next to other DEX programs.
C3_JupiterFastPath ==
    ( /\ pc = "parse_all"
      /\ config.aggregate_trades
      /\ config.program_ids = None
      /\ config.ignore_program_ids = None
      /\ JUPITER.id \in InvokedProgramIds
      /\ JupiterProcessTrades(RunAdapter,
             [program_id |-> Some(JUPITER.id), amm |-> Some(JUPITER.name), route |-> None],
             get_instructions(RunMap, JUPITER.id)) # <<>> )
    => (IsSome(result.aggregate_trade) /\ result.trades = <<>>)

\* C4: with config.program_ids set, every returned trade and the aggregate
\* trade were decoded from a program in config.program_ids.
C4_IncludeFilter ==
    (pc = "parse_all" /\ IsSome(config.program_ids)) =>
        /\ \A i \in DOMAIN result.trades :
              /\ IsSome(result.trades[i].program_id)
              /\ Contains(config.program_ids[1], result.trades[i].program_id[1])
        /\ IsSome(result.aggregate_trade) =>
              /\ IsSome(result.aggregate_trade[1].program_id)
              /\ Contains(config.program_ids[1], result.aggregate_trade[1].program_id[1])

\* C5: for a filter holding one of the transaction's non-system program IDs,
\* the trades of the filtered parse_all are a subsequence of the trades of
\* the unfiltered parse_all.
C5_FilterMonotone ==
    ( /\ pc = "parse_all"
      /\ IsSome(config.program_ids)
      /\ SeqRange(config.program_ids[1]) \cap SurvivingProgramIds # {} )
    => \A order \in Orders(MapKeys(tx)) :
          IsSubsequence(result.trades,
                        parse_all(tx, [config EXCEPT !.program_ids = None], order).trades)

\* C6: on the general path with aggregate_trades true and at least one decoded
\* trade, the trades are deduplicated by (idx, signature) and aggregate_trade
\* is get_final_swap of the deduplicated list, for one trade as for more.
C6_AggregateOnGeneralPath ==
    ( /\ pc = "parse_all"
      /\ result.state
      /\ config.aggregate_trades
      /\ ~IsSome(RunFastPath)
      /\ RunWalked # <<>> )
    => /\ result.trades = FirstOccurrences(RunWalked)
       /\ result.aggregate_trade =
              get_final_swap(result.trades, RunDexInfo.amm, RunDexInfo.route)

\* C7: every result with state = true carries the signer's entry of the SOL
\* balance-change report and of the token balance-change report.
C7_BalanceChangesAttached ==
    (pc = "parse_all" /\ result.state) =>
        /\ result.sol_balance_change =
              MapGet(get_account_sol_balance_changes(RunAdapter), signer(RunAdapter))
        /\ result.token_balance_change =
              MapGet(get_account_token_balance_changes(RunAdapter), signer(RunAdapter))

\* The include filter is set and holds none of the surviving program IDs.
FilteredOut ==
    /\ IsSome(config.program_ids)
    /\ SeqRange(config.program_ids[1]) \cap SurvivingProgramIds = {}

\* C8: parse_all returns state = false exactly when config.program_ids is set
\* and holds none of the program IDs that survive the system-program and
\* skip-list exclusion; then trades is empty and aggregate_trade is None.
C8_StateFalseIffFilteredOut ==
    pc = "parse_all" =>
        /\ result.state = ~FilteredOut
        /\ FilteredOut => (result.trades = <<>> /\ result.aggregate_trade = None)

\* A filter naming only the Token program, which the transaction invokes in
\* its inner instructions next to a DEX program: state is false.
C8_Witness ==
    /\ pc = "parse_all"
    /\ IsSome(config.program_ids)
    /\ Contains(config.program_ids[1], TOKEN_PROGRAM_ID)
    /\ TOKEN_PROGRAM_ID \in InvokedProgramIds
    /\ SurvivingProgramIds # {}
    /\ result.state = FALSE

\* C9 as stated: deduplicating L \o L yields L, for every trade list L.
C9_DedupDoubledIsOriginal ==
    pc = "dedup_doubled" => result = trades_in

\* C9: the deduplication keeps for each (idx, signature) key the first trade in
\* list order and preserves the order of the kept trades; on L \o L it yields
\* the deduplication of L, which is L when no two trades of L share a key.
C9_DedupKeepsFirstOccurrences ==
    /\ pc = "dedup" =>
          result = IF Len(trades_in) > 1 THEN FirstOccurrences(trades_in) ELSE trades_in
    /\ pc = "dedup_doubled" =>
          /\ result = FirstOccurrences(trades_in)
          /\ NoDuplicateKeys(trades_in) => result = trades_in

\* Three trades, two of them under one key: L \o L deduplicates to two trades.
C9_Witness ==
    /\ pc = "dedup_doubled"
    /\ Len(trades_in) = 3
    /\ ~NoDuplicateKeys(trades_in)
    /\ Len(result) = 2
    /\ result[1] = trades_in[1]

\* The number a canonical amount_raw string denotes.
AmountOf(amount_raw) == UnwrapOr(parse_uint(amount_raw), 0)

RECURSIVE SumOver(_, _)
\* The sum of f[i] over the index set S.
SumOver(f, S) ==
    IF S = {} THEN 0
    ELSE LET i == CHOOSE x \in S : TRUE IN f[i] + SumOver(f, S \ {i})

\* The first trade after the stable sort by idx: the earliest of the least.
FirstByIdx(L) ==
    L[CHOOSE i \in DOMAIN L :
          \A j \in DOMAIN L : \/ IdxKey(L[i].idx) # IdxKey(L[j].idx) /\ IdxLeq(L[i].idx, L[j].idx)
                              \/ IdxKey(L[i].idx) = IdxKey(L[j].idx) /\ i <= j]

\* The last trade after the stable sort by idx: the latest of the greatest.
LastByIdx(L) ==
    L[CHOOSE i \in DOMAIN L :
          \A j \in DOMAIN L : \/ IdxKey(L[i].idx) # IdxKey(L[j].idx) /\ IdxLeq(L[j].idx, L[i].idx)
                              \/ IdxKey(L[i].idx) = IdxKey(L[j].idx) /\ j <= i]

\* C10: for a non-empty trade list get_final_swap returns a trade with the
\* input mint of the first and the output mint of the last trade by idx, the
\* input amount_raw the sum over the trades with that input mint, the output
\* amount_raw the sum over the trades with that output mint; an empty list
\* yields None.
C10_AggregateConsistency ==
    pc = "final_swap" =>
        IF trades_in = <<>> THEN result = None
        ELSE LET first == FirstByIdx(trades_in)
                 last == LastByIdx(trades_in)
                 ins == { i \in DOMAIN trades_in :
                            trades_in[i].input_token.mint = first.input_token.mint }
                 outs == { i \in DOMAIN trades_in :
                             trades_in[i].output_token.mint = last.output_token.mint }
             IN /\ IsSome(result)
                /\ result[1].input_token.mint = first.input_token.mint
                /\ result[1].output_token.mint = last.output_token.mint
                /\ result[1].input_token.amount_raw =
                      to_string(SumOver([i \in DOMAIN trades_in |->
                                            AmountOf(trades_in[i].input_token.amount_raw)], ins))
                /\ result[1].output_token.amount_raw =
                      to_string(SumOver([i \in DOMAIN trades_in |->
                                            AmountOf(trades_in[i].output_token.amount_raw)], outs))

\* Three trades given out of idx order, two sharing the first trade's input
\* mint and one not: the input total adds up two legs.
C10_Witness ==
    /\ pc = "final_swap"
    /\ Len(trades_in) = 3
    /\ FirstByIdx(trades_in) # trades_in[1]
    /\ \E i \in DOMAIN trades_in : trades_in[i].input_token.mint # result[1].input_token.mint
    /\ AmountOf(result[1].input_token.amount_raw)
          > AmountOf(FirstByIdx(trades_in).input_token.amount_raw)

\* The rearrangements of a list.
Rearrangements(L) == { [i \in DOMAIN L |-> L[f[i]]] : f \in Orders(DOMAIN L) }

\* The fields of an aggregated trade the order of the list must not change.
AggregateView(agg) ==
    IF ~IsSome(agg) THEN None
    ELSE Some([ input_mint |-> agg[1].input_token.mint,
                output_mint |-> agg[1].output_token.mint,
                input_total |-> agg[1].input_token.amount_raw,
                output_total |-> agg[1].output_token.amount_raw,
                pool |-> SeqRange(agg[1].pool),
                user |-> agg[1].user,
                idx |-> agg[1].idx ])

\* C11: for every trade list and every permutation of it sort_by_idx returns
\* the same sequence and get_final_swap the same aggregated trade (mints,
\* totals, pools, user and idx).
C11_OrderIndependent ==
    /\ pc = "sort_by_idx" =>
          \A p \in Rearrangements(trades_in) :
              sort_by_idx([i \in DOMAIN p |-> <<p[i], p[i].idx>>]) = result
    /\ pc = "final_swap" =>
          \A p \in Rearrangements(trades_in) :
              AggregateView(get_final_swap(p, dex_args[1], dex_args[2]))
                  = AggregateView(result)

\* The mints of the transfers in first-seen order, the all-ones native address
\* left out when skip_native is set.
FirstSeenMints(transfers, skip_native) ==
    AtIndexes([i \in DOMAIN transfers |-> transfers[i].info.mint],
              { i \in DOMAIN transfers :
                  /\ ~(skip_native /\ transfers[i].info.mint = NATIVE)
                  /\ \A j \in 1..(i - 1) : transfers[j].info.mint # transfers[i].info.mint })

FeeIndexes(transfers) ==
    { i \in DOMAIN transfers :
        \/ transfers[i].info.destination \in FEE_ACCOUNTS
        \/ /\ IsSome(transfers[i].info.destination_owner)
           /\ transfers[i].info.destination_owner[1] \in FEE_ACCOUNTS }

\* The sum of the distinct amounts the transfers outside the fee recipients
\* carry for the mint.
CountedTotal(transfers, mint) ==
    LET amounts == { AmountOf(transfers[i].info.token_amount.amount) :
                       i \in { j \in DOMAIN transfers \ FeeIndexes(transfers) :
                                 transfers[j].info.mint = mint } }
    IN SumOver([a \in amounts |-> a], amounts)

TotalsAreCounted ==
    /\ AmountOf(result[1].input_token.amount_raw)
           = CountedTotal(args.transfers, result[1].input_token.mint)
    /\ AmountOf(result[1].output_token.amount_raw)
           = CountedTotal(args.transfers, result[1].output_token.mint)

\* C13 as stated: every transfer to a fee recipient stays out of the totals and
\* is the trade's fee with its amount; the totals are the sums of the distinct
\* (amount, mint) pairs of the other transfers.
C13_EveryFeeTransferIsTheFee ==
    (pc = "process_swap_data" /\ IsSome(result)) =>
        /\ TotalsAreCounted
        /\ \A i \in FeeIndexes(args.transfers) :
              /\ IsSome(result[1].fee)
              /\ result[1].fee[1].amount_raw = args.transfers[i].info.token_amount.amount

\* C13: transfers to a fee recipient stay out of the totals, the last of them
\* in list order is the trade's fee with its amount and mint, a trade without
\* one has no fee; the totals are the sums of the distinct (amount, mint)
\* pairs of the other transfers.
C13_LastFeeTransferIsTheFee ==
    (pc = "process_swap_data" /\ IsSome(result)) =>
        LET fees == FeeIndexes(args.transfers)
        IN /\ TotalsAreCounted
           /\ fees = {} => result[1].fee = None
           /\ fees # {} =>
                 LET last == CHOOSE i \in fees : \A j \in fees : j <= i
                 IN /\ IsSome(result[1].fee)
                    /\ result[1].fee[1].amount_raw
                          = args.transfers[last].info.token_amount.amount
                    /\ result[1].fee[1].mint = args.transfers[last].info.mint

\* A trade over a repeated (amount, mint) pair of the input mint and one fee
\* transfer of the output mint.
C13_Witness ==
    /\ pc = "process_swap_data"
    /\ IsSome(result)
    /\ Len(args.transfers) = 3
    /\ FeeIndexes(args.transfers) = {3}
    /\ args.transfers[1].info = args.transfers[2].info
    /\ args.transfers[3].info.mint = result[1].output_token.mint
    /\ result[1].fee[1].amount_raw = args.transfers[3].info.token_amount.amount
    /\ result[1].input_token.amount_raw = args.transfers[1].info.token_amount.amount
    /\ result[1].output_token.amount_raw = to_string(0)

\* The inner instructions of outer instruction 0 and their resolved parts.
InnerOf(t) == t.inner_instructions[1][1].instructions
ProgramOf(ix) == TxAccountKeys[ix.program_id_index + 1]
AccountsOf(ix) == [i \in DOMAIN ix.account_key_indexes |-> TxAccountKeys[ix.account_key_indexes[i] + 1]]

\* The records get_transfer_actions stored for inner instruction i (from 1).
RecordsOf(i) ==
    UnwrapOr(MapGet(result, GroupKey(ProgramOf(tx.instructions[1]), 0, Some(i - 1))), <<>>)

\* The account has a mint from a post-token-balance entry or from a
\* mint-carrying token instruction (TransferChecked, MintTo, Burn) of t.
MintRecorded(t, account) ==
    \/ \E b \in SeqRange(t.meta[1].post_token_balances[1]) :
          IsSome(b.mint) /\ TxAccountKeys[b.account_index + 1] = account
    \/ \E ix \in SeqRange(t.instructions) \cup SeqRange(InnerOf(t)) :
          /\ ProgramOf(ix) \in {TOKEN_PROGRAM_ID, TOKEN_2022_PROGRAM_ID}
          /\ ix.data # <<>>
          /\ \/ /\ ix.data[1] = SPL_TRANSFER_CHECKED
                /\ Len(AccountsOf(ix)) >= 3
                /\ account \in {AccountsOf(ix)[1], AccountsOf(ix)[3]}
             \/ /\ ix.data[1] \in {SPL_MINT_TO, SPL_MINT_TO_CHECKED, SPL_BURN, SPL_BURN_CHECKED}
                /\ Len(AccountsOf(ix)) >= 2
                /\ account \in {AccountsOf(ix)[1], AccountsOf(ix)[2]}

\* C14: a Token-program Transfer (opcode 3) whose source and destination
\* accounts have no recorded mint gets no record from get_transfer_actions.
C14_UnresolvedMintSkipped ==
    pc = "get_transfer_actions" =>
        \A i \in DOMAIN InnerOf(tx) :
            LET ix == InnerOf(tx)[i]
            IN ( /\ ProgramOf(ix) = TOKEN_PROGRAM_ID
                 /\ ix.data # <<>> /\ ix.data[1] = SPL_TRANSFER
                 /\ Len(AccountsOf(ix)) >= 2
                 /\ ~MintRecorded(tx, AccountsOf(ix)[1])
                 /\ ~MintRecorded(tx, AccountsOf(ix)[2]) )
               => RecordsOf(i) = <<>>

\* C15: every inner Token or Token-2022 instruction that is a Transfer (3, at
\* least 9 data bytes, 2 accounts) or a TransferChecked (12, at least 10 data
\* bytes, 3 accounts) gets exactly one record, of kind "transfer" respectively
\* "transferChecked", whose amount is the little-endian u64 at data[1..9].
C15_OneRecordPerTransfer ==
    pc = "get_transfer_actions" =>
        \A i \in DOMAIN InnerOf(tx) :
            LET ix == InnerOf(tx)[i]
                plain == /\ Len(ix.data) >= 9 /\ ix.data[1] = SPL_TRANSFER
                         /\ Len(AccountsOf(ix)) >= 2
                checked == /\ Len(ix.data) >= 10 /\ ix.data[1] = SPL_TRANSFER_CHECKED
                           /\ Len(AccountsOf(ix)) >= 3
            IN ( /\ ProgramOf(ix) \in {TOKEN_PROGRAM_ID, TOKEN_2022_PROGRAM_ID}
                 /\ (plain \/ checked) )
               => /\ Len(RecordsOf(i)) = 1
                  /\ RecordsOf(i)[1].transfer_type
                        = (IF plain THEN "transfer" ELSE "transferChecked")
                  /\ RecordsOf(i)[1].info.token_amount.amount
                        = to_string(from_le_bytes(SubSeq(ix.data, 2, 9)))

\* The trades of the decoder run that came from outer instruction i (from 1).
TradesOfOuter(i) == SelectSeq(result, LAMBDA t : t.idx = InnerIdx(i - 1, 0))

\* The u64 and the address an event carries at a byte offset of its data.
U64At(data, offset) == from_le_bytes(SubSeq(data, offset + 1, offset + 8))
AddressAt(data, offset) == bs58_encode(SubSeq(data, offset + 1, offset + 32))

\* C16: a Pumpswap trade, of a buy and of a sell event alike, has as fee mint
\* the mint of the protocol-fee-recipient token account and as fee.amount_raw
\* protocol_fee + coin_creator_fee, the latter 0 without the 48-byte trailer.
C16_PumpswapFee ==
    (pc = "process_trades" /\ args.program_id = PUMP_SWAP.id) =>
        \A i \in DOMAIN tx.instructions :
            \A k \in DOMAIN TradesOfOuter(i) :
                LET data == tx.instructions[i].data
                    protocol_fee == U64At(data, 16 + 8 + 10 * 8)
                    coin_creator_fee == IF Len(data) >= 320 + 48
                                        THEN U64At(data, 320 + 32 + 8) ELSE 0
                    trade_fee == TradesOfOuter(i)[k].fee
                IN /\ IsSome(trade_fee)
                   /\ Some(trade_fee[1].mint) = TokenMintOf(NewAdapter(tx), AddressAt(data, 288))
                   /\ trade_fee[1].amount_raw = to_string(protocol_fee + coin_creator_fee)

\* The Pumpfun trade the event bytes describe: the fixed part is mint (32),
\* solAmount, tokenAmount, isBuy (1), user (32), timestamp and two more u64;
\* feeLamports are the last u64 of the 58 bytes behind it.
ExpectedPumpfunLegs(data) ==
    LET sol == [mint |-> SOL, amount_raw |-> to_string(U64At(data, 16 + 32)), decimals |-> 9]
        token == [ mint |-> AddressAt(data, 16),
                   amount_raw |-> to_string(U64At(data, 16 + 40)), decimals |-> 6 ]
        is_buy == data[16 + 48 + 1] = 1
    IN [ input_token |-> IF is_buy THEN sol ELSE token,
         output_token |-> IF is_buy THEN token ELSE sol,
         timestamp |-> U64At(data, 16 + 81),
         fee |-> IF Len(data) - (16 + 105) >= 58
                 THEN Some([ mint |-> SOL, decimals |-> 9,
                             amount_raw |-> to_string(U64At(data, 16 + 105 + 50)) ])
                 ELSE None ]

\* What the claim says of a trade: its legs, its timestamp, its fee.
PumpfunLegsOf(t) ==
    [ input_token |-> t.input_token, output_token |-> t.output_token,
      timestamp |-> t.timestamp,
      fee |-> IF IsSome(t.fee)
              THEN Some([ mint |-> t.fee[1].mint, decimals |-> t.fee[1].decimals,
                          amount_raw |-> t.fee[1].amount_raw ])
              ELSE None ]

\* C17: a Pumpfun instruction whose data starts with PUMPFUN_TRADE_EVENT gives
\* one trade when the 105-byte fixed part is there: SOL (9 decimals,
\* solAmount) in and the mint (6 decimals, tokenAmount) out when isBuy = 1, the
\* reverse otherwise, the event's timestamp, and the fee of feeLamports in SOL
\* exactly when 58 more bytes follow; a shorter payload gives no trade and the
\* other instructions are decoded all the same.
C17_PumpfunTrade ==
    (pc = "process_trades" /\ args.program_id = PUMP_FUN.id) =>
        /\ \A i \in DOMAIN tx.instructions :
              LET data == tx.instructions[i].data
              IN (Len(data) >= 16 /\ SubSeq(data, 1, 16) = PUMPFUN_TRADE_EVENT) =>
                    IF Len(data) - 16 >= 105
                    THEN /\ Len(TradesOfOuter(i)) = 1
                         /\ PumpfunLegsOf(TradesOfOuter(i)[1]) = ExpectedPumpfunLegs(data)
                    ELSE TradesOfOuter(i) = <<>>
        /\ \A k \in DOMAIN result :
              \E i \in DOMAIN tx.instructions : result[k].idx = InnerIdx(i - 1, 0)

\* A short payload first, then a sell with the fee trailer: one trade, of the
\* second instruction.
C17_Witness ==
    /\ pc = "process_trades"
    /\ args.program_id = PUMP_FUN.id
    /\ Len(tx.instructions) = 2
    /\ Len(tx.instructions[1].data) = 120
    /\ Len(result) = 1
    /\ result[1].idx = InnerIdx(1, 0)
    /\ result[1].input_token = [mint |-> "Mint1", amount_raw |-> to_string(9), decimals |-> 6]
    /\ result[1].output_token.mint = SOL
    /\ result[1].timestamp = 1650
    /\ IsSome(result[1].fee)
    /\ result[1].fee[1].amount_raw = to_string(4)

\* C18: for the S1 transaction under the default configuration parse_all
\* returns one trade: a Buy of SOL raw 1000000000 at 9 decimals for USDC raw
\* 150000000 at 6 decimals with route "Jupiter", no token balance of USDC
\* being there.
C18_S1OneBuyTrade ==
    (pc = "parse_all" /\ tx \in S1Transactions /\ config = ConfigDefault) =>
        /\ Len(result.trades) = 1
        /\ result.trades[1].trade_type = "Buy"
        /\ result.trades[1].input_token
              = [mint |-> SOL, amount_raw |-> to_string(1000000000), decimals |-> 9]
        /\ result.trades[1].output_token
              = [mint |-> USDC, amount_raw |-> to_string(150000000), decimals |-> 6]
        /\ result.trades[1].route = Some("Jupiter")

\* The trade type the rule gives to a trade's own mints.
HasRuleType(t) == t.trade_type = get_trade_type(t.input_token.mint, t.output_token.mint)

\* C19: get_trade_type is Buy for wrapped SOL in, else Sell for wrapped SOL
\* out, else Buy for a known stablecoin in, else Sell; so (SOL, X) is Buy and
\* (X, SOL) is Sell for X other than SOL; and the trades of the Jupiter
\* decoder, the Pumpswap decoder, swap reconciliation and aggregation carry
\* the type the rule gives to their input and output mint.
C19_TradeTypeRule ==
    /\ pc = "get_trade_type" =>
          /\ result = ( IF args.in_mint = SOL THEN "Buy"
                        ELSE IF args.out_mint = SOL THEN "Sell"
                        ELSE IF is_known_stable(args.in_mint) THEN "Buy"
                        ELSE "Sell" )
          /\ (args.in_mint = SOL /\ args.out_mint # SOL) => result = "Buy"
          /\ (args.out_mint = SOL /\ args.in_mint # SOL) => result = "Sell"
    /\ pc = "process_trades" => \A k \in DOMAIN result : HasRuleType(result[k])
    /\ pc = "process_swap_data" => (IsSome(result) => HasRuleType(result[1]))
    /\ pc = "final_swap" => (IsSome(result) => HasRuleType(result[1]))

\* The amount a snapshot holds for (account, mint): None without an entry.
SnapshotAmount(snapshot, account, mint) ==
    LET hits == { i \in DOMAIN snapshot :
                    /\ TxAccountKeys[snapshot[i].account_index + 1] = account
                    /\ snapshot[i].mint = Some(mint) }
    IN IF hits = {} THEN None
       ELSE Some(AmountOf(snapshot[CHOOSE i \in hits : TRUE].ui_token_amount.amount))

AbsDiff(a, b) == IF a < b THEN b - a ELSE a - b

\* C20: every (account, mint) entry of get_account_token_balance_changes has
\* change = |post - pre| and a change other than 0; an entry of the pre
\* snapshot with net change 0 is pruned, and one that is in the pre snapshot
\* only (post taken as 0) is reported with its pre amount as change.
C20_TokenBalanceChanges ==
    pc = "token_balance_changes" =>
        LET pre == tx.meta[1].pre_token_balances[1]
            post == tx.meta[1].post_token_balances[1]
            Pre(account, mint) == UnwrapOr(SnapshotAmount(pre, account, mint), 0)
            Post(account, mint) == UnwrapOr(SnapshotAmount(post, account, mint), 0)
            Reported(account, mint) ==
                account \in DOMAIN result /\ mint \in DOMAIN result[account]
        IN /\ \A account \in DOMAIN result : \A mint \in DOMAIN result[account] :
                 /\ AmountOf(result[account][mint].change.amount)
                       = AbsDiff(Post(account, mint), Pre(account, mint))
                 /\ AmountOf(result[account][mint].change.amount) # 0
           /\ \A i \in DOMAIN pre :
                 LET account == TxAccountKeys[pre[i].account_index + 1]
                     mint == pre[i].mint[1]
                 IN /\ Pre(account, mint) = Post(account, mint) => ~Reported(account, mint)
                    /\ ( /\ SnapshotAmount(post, account, mint) = None
                         /\ Pre(account, mint) # 0 )
                       => /\ Reported(account, mint)
                          /\ AmountOf(result[account][mint].change.amount)
                                = Pre(account, mint)

(***************************************************************************)
(* C21                                                                     *)
(***************************************************************************)
\* The lamport balance at position index of a list, 0 when the list is shorter.
LamportsAt(list, index) == IF index <= Len(list) THEN list[index] ELSE U64_ZERO

\* |a - b| of two u64: the smaller subtracted from the larger.
WideAbsDiff(a, b) ==
    IF SubLimbs(a, b, 0)[Len(a) + 1] = 1 THEN wrapping_sub(b, a) ELSE wrapping_sub(a, b)

\* C21: the SOL balance-change report is computed for every pair of balances
\* (no overflow aborts it), it has an entry for an account exactly when the
\* account's post balance differs from its pre balance, and the entry carries
\* pre, post and |post - pre| as amounts of 9 decimals.
C21_SolBalanceChanges ==
    pc = "sol_balance_changes" =>
        /\ ~IsPanic(result)
        /\ \A i \in DOMAIN tx.account_keys :
              LET key == tx.account_keys[i]
                  pre == LamportsAt(tx.meta[1].pre_balances[1], i)
                  post == LamportsAt(tx.meta[1].post_balances[1], i)
              IN /\ (key \in DOMAIN result) <=> (pre # post)
                 /\ key \in DOMAIN result =>
                       /\ result[key].pre = [amount |-> u64_to_string(pre), decimals |-> 9]
                       /\ result[key].post = [amount |-> u64_to_string(post), decimals |-> 9]
                       /\ result[key].change =
                             [amount |-> u64_to_string(WideAbsDiff(post, pre)), decimals |-> 9]

(***************************************************************************)
(* C22                                                                     *)
(***************************************************************************)
\* The u64 an event carries at a byte offset of its data, as a wide value.
WideAt(data, offset) == wide_from_le_bytes(SubSeq(data, offset + 1, offset + 8))

\* C22: the Pumpswap decoder returns its trades for every pair of u64 fees (no
\* panic), and the fee of a buy is the sum protocol_fee + coin_creator_fee
\* itself, not the sum modulo 2^64.
C22_FeeSumNeverOverflows ==
    pc = "process_trades" =>
        /\ ~Unwound(result)
        /\ \A i \in DOMAIN tx.instructions :
              LET data == tx.instructions[i].data
                  sum == AddLimbs(WideAt(data, 16 + 8 + 80), WideAt(data, 320 + 40), 0)
              IN /\ Len(TradesOfOuter(i)) = 1
                 /\ SubSeq(data, 1, 16) = PUMPSWAP_BUY_EVENT =>
                       TradesOfOuter(i)[1].fee[1].amount_raw = u64_to_string(sum)

(***************************************************************************)
(* C23                                                                     *)
(***************************************************************************)
\* The bytes an operation needs to succeed on the reader it is called on: its
\* width, and for read_string_u32_len the prefix and the string it announces.
BytesNeeded ==
    IF pc # "read_string_u32_len" THEN args.length
    ELSE IF remaining(args.reader) < 4 THEN 4
    ELSE 4 + narrow(wide_from_le_bytes(
                 SubSeq(args.reader.data, args.reader.offset + 1, args.reader.offset + 4)))

\* C23: an operation called with too few bytes remaining returns Overflow
\* with the requested length, the offset and the buffer length, and leaves
\* offset() as it was before the call.
C23_FailureLeavesCursor ==
    (pc # "ready" /\ remaining(args.reader) < BytesNeeded) =>
        /\ ~result.ok
        /\ DOMAIN result.value = {"requested", "offset", "length"}
        /\ result.value.length = Len(args.reader.data)
        /\ result.reader.offset = args.reader.offset

(***************************************************************************)
(* C30                                                                     *)
(***************************************************************************)
\* The operations that read a fixed number of bytes.
FixedWidthReads ==
    { "read_fixed_array", "read_u8", "read_u16_le", "read_u32_le", "read_u64_le",
      "read_i64_le", "read_pubkey" }

\* The value the args.length bytes behind the old offset encode for the
\* operation: the bytes themselves, the byte, the address, or the number whose
\* 16-bit limb j is byte 2j-1 plus 256 times byte 2j.
EncodedValue ==
    LET data == args.reader.data
        old == args.reader.offset
    IN IF pc = "read_fixed_array" THEN SubSeq(data, old + 1, old + args.length)
       ELSE IF pc = "read_u8" THEN data[old + 1]
       ELSE IF pc = "read_pubkey" THEN bs58_encode(SubSeq(data, old + 1, old + 32))
       ELSE [j \in 1..(args.length \div 2) |-> data[old + 2 * j - 1] + 256 * data[old + 2 * j]]

\* C30: after every call of a sequence of reads, failed or not, the offset is
\* within the buffer, remaining() is the buffer length less the offset, the
\* offset is not below the one before the call, and a fixed-width read that
\* succeeded has advanced the offset by its width and returned the value of the
\* bytes at the old offset.
C30_ReaderCursor ==
    pc # "ready" =>
        /\ result.reader.data = args.reader.data
        /\ 0 <= result.reader.offset
        /\ result.reader.offset <= Len(result.reader.data)
        /\ remaining(result.reader) = Len(result.reader.data) - result.reader.offset
        /\ result.reader.offset >= args.reader.offset
        /\ (pc \in FixedWidthReads /\ result.ok) =>
              /\ result.reader.offset = args.reader.offset + args.length
              /\ result.value = EncodedValue

\* A read_u64_le behind a string of two characters: the eight bytes at offset
\* 6 are 2 0 0 0 65 66 2 0.
C30_Witness ==
    /\ pc = "read_u64_le"
    /\ result.ok
    /\ args.reader.offset = 6
    /\ result.reader.offset = 14
    /\ result.value = <<2, 0, 65 + 256 * 66, 2>>

(***************************************************************************)
(* C24                                                                     *)
(***************************************************************************)
\* The program IDs of the classifier that are no system or skip-list program
\* and pass the include and the ignore filter.
ShredProgramIds ==
    { id \in MapKeys(tx) :
        /\ id \notin SYSTEM_PROGRAMS /\ id \notin SKIP_PROGRAM_IDS
        /\ IsSome(config.program_ids) => id \in SeqRange(config.program_ids[1])
        /\ IsSome(config.ignore_program_ids) => id \notin SeqRange(config.ignore_program_ids[1]) }

\* C24: every classified instruction of every program that passes the
\* exclusion and the filters is in result.instructions under the name of its
\* program, also when several of these programs have one name.
C24_ShredGroupsAll ==
    pc = "shred_parse_all" =>
        \A id \in ShredProgramIds :
            LET list == get_instructions(classify_instructions(NewAdapter(tx)), id)
                name == get_program_name(id)
            IN \A k \in DOMAIN list :
                  /\ name \in DOMAIN result.instructions
                  /\ \E n \in DOMAIN result.instructions[name] :
                        result.instructions[name][n] =
                            [ programId |-> id, outerIndex |-> list[k].outer_index,
                              innerIndex |-> list[k].inner_index ]

(***************************************************************************)
(* C25                                                                     *)
(***************************************************************************)
\* The value of segment n of an idx: the number its digits write, 0 when the
\* segment is missing or is no run of digits.
SegmentValue(idx, n) ==
    LET parts == split(idx, "-")
    IN IF n <= Len(parts) /\ parts[n] # <<>> /\ \A i \in DOMAIN parts[n] : IsDigit(parts[n][i])
       THEN ParseDigits(parts[n], 0)
       ELSE 0

\* a is not behind b: the first segments compared as numbers, then the second.
NumericLeq(a, b) ==
    \/ SegmentValue(a, 1) < SegmentValue(b, 1)
    \/ SegmentValue(a, 1) = SegmentValue(b, 1) /\ SegmentValue(a, 2) <= SegmentValue(b, 2)

\* C25: sort_by_idx returns a permutation of its input in which no item is
\* ahead of one that is numerically smaller by (first segment, second
\* segment): "2-9" is ahead of "2-10" and "9" ahead of "10".
C25_SortByIdxNumeric ==
    pc = "sort_by_idx" =>
        /\ result \in Rearrangements(trades_in)
        /\ \A i, j \in DOMAIN result : i < j => NumericLeq(result[i].idx, result[j].idx)
        /\ \A i, j \in DOMAIN result :
              ( \/ /\ result[i].idx = <<"2", "-", "1", "0">>
                   /\ result[j].idx = <<"2", "-", "9">>
                \/ /\ result[i].idx = <<"1", "0">>
                   /\ result[j].idx \in {<<"9">>, <<"2", "-", "9">>} ) => j < i

\* "10", "2-10", "2-9" come out as "2-9", "2-10", "10".
C25_Witness ==
    /\ pc = "sort_by_idx"
    /\ [i \in DOMAIN trades_in |-> trades_in[i].idx]
           = << <<"1", "0">>, <<"2", "-", "1", "0">>, <<"2", "-", "9">> >>
    /\ [i \in DOMAIN result |-> result[i].idx]
           = << <<"2", "-", "9">>, <<"2", "-", "1", "0">>, <<"1", "0">> >>

(***************************************************************************)
(* C26                                                                     *)
(***************************************************************************)
\* C26: the trade get_final_swap returns for a non-empty list, of one trade
\* or of more, has the amm passed as dex_amm and the route passed as
\* dex_route, and the amm and the route of the first trade by idx where none
\* is passed.
C26_OverridesApplied ==
    (pc = "final_swap" /\ trades_in # <<>>) =>
        /\ IsSome(result)
        /\ result[1].amm = IF IsSome(dex_args[1]) THEN dex_args[1]
                           ELSE FirstByIdx(trades_in).amm
        /\ result[1].route = IF IsSome(dex_args[2]) THEN dex_args[2]
                             ELSE FirstByIdx(trades_in).route

(***************************************************************************)
(* The state machine of transfer indexing: get_transfer_actions on a       *)
(* transaction of two outer instructions, one of them possibly a token     *)
(* instruction itself, with one or two inner-instruction sets whose token  *)
(* transfers go to plain accounts and to fee recipients                    *)
(***************************************************************************)
\* Most instructions of a generated inner-instruction set of SpecIndex.
MaxIndexed == 2

\* The account keys of the indexed transactions: a fee recipient is the last.
IndexKeys == TxAccountKeys \o <<FeeRecipient>>

\* A TransferChecked of the given program into the account at key position
\* destination_index.
CheckedInto(program, destination_index, amount) ==
    [ program_id_index |-> KeyIndex(program),
      account_key_indexes |-> <<KeyIndex("UserTok"), KeyIndex("Mint1"), destination_index,
                                KeyIndex("User")>>,
      data |-> TokenTransferCheckedData(amount, 6) ]

\* Into a plain account, into a fee recipient, into an account a fee
\* recipient owns, and a Transfer too short to decode.
IndexedInstructions ==
    { CheckedInto(TOKEN_PROGRAM_ID, KeyIndex("PoolTok"), 300),
      CheckedInto(TOKEN_2022_PROGRAM_ID, Len(TxAccountKeys), 301),
      CheckedInto(TOKEN_PROGRAM_ID, KeyIndex("FeeTok"), 302),
      RawInstruction(TOKEN_PROGRAM_ID, <<"UserTok", "PoolTok", "User">>,
                     SubSeq(TokenTransferData(12), 1, 8)) }

\* Outer instructions: a DEX instruction and a token instruction of the Token
\* program, which is a system program.
IndexedOuter ==
    { RaySwapIx, CheckedInto(TOKEN_PROGRAM_ID, Len(TxAccountKeys), 303) }

\* The meta records FeeTok as a token account the fee recipient owns.
IndexMeta ==
    [ TxMeta(TRUE) EXCEPT !.post_token_balances =
        Some(@[1] \o << TokenBalance("FeeTok", "Mint1", FeeRecipient, 2) >>) ]

\* One set under outer instruction 0, or that set and a second one under
\* outer instruction 0 again or under outer instruction 1.
IndexedSets ==
    { << [index |-> 0, instructions |-> a] >> : a \in SeqsUpTo(IndexedInstructions, MaxIndexed) }
    \cup { << [index |-> 0, instructions |-> a], [index |-> o, instructions |-> b] >> :
             a \in SeqsUpTo(IndexedInstructions, MaxIndexed), o \in {0, 1},
             b \in SeqsUpTo(IndexedInstructions, MaxIndexed) }

IndexTxs ==
    { [ slot |-> 77, block_time |-> Some(1700), version |-> None, signatures |-> <<"Sig1">>,
        account_keys |-> IndexKeys, instructions |-> <<first, second>>,
        inner_instructions |-> Some(sets), meta |-> Some(IndexMeta) ] :
      first \in IndexedOuter, second \in IndexedOuter, sets \in IndexedSets }

InitIndex ==
    /\ tx \in IndexTxs
    /\ config = ConfigDefault
    /\ key_order = <<>>
    /\ pc = "ready"
    /\ result = None
    /\ trades_in = <<>>
    /\ dex_args = <<None, None>>
    /\ args = None

NextIndex == TransferActions

SpecIndex == InitIndex /\ [][NextIndex]_vars

(***************************************************************************)
(* C27                                                                     *)
(***************************************************************************)
\* The program ID of outer instruction o (from 0) of the transaction.
OuterProgram(o) == IndexKeys[tx.instructions[o + 1].program_id_index + 1]

\* The key of inner instruction i (from 0) of a set with index o.
InnerKey(o, i) == <<OuterProgram(o), ":">> \o to_string(o) \o <<"-">> \o to_string(i)

\* The record of an instruction, before idx and isFee are filled in.
Decoded(raw) == parse_compiled_action(NewAdapter(tx), raw, <<>>)

InFeeList(record) ==
    \/ record.info.destination \in FEE_ACCOUNTS
    \/ \E owner \in FEE_ACCOUNTS : record.info.destination_owner = Some(owner)

\* The record expected for inner instruction i of a set with index o.
Indexed(record, o, i) ==
    [ record EXCEPT !.idx = to_string(o) \o <<"-">> \o to_string(i),
                    !.is_fee = IF InFeeList(record) THEN Some(TRUE) ELSE None ]

RECURSIVE IndexedUnder(_, _)
\* The records the sets contribute to one key, in the input order: a set
\* holds at most one instruction per key.
IndexedUnder(sets, key) ==
    IF sets = <<>> THEN <<>>
    ELSE LET set == Head(sets)
             hits == { i \in DOMAIN set.instructions :
                         /\ InnerKey(set.index, i - 1) = key
                         /\ IsSome(Decoded(set.instructions[i])) }
             here == IF hits = {} THEN <<>>
                     ELSE LET i == CHOOSE i \in hits : TRUE
                          IN << Indexed(Decoded(set.instructions[i])[1], set.index, i - 1) >>
         IN here \o IndexedUnder(Tail(sets), key)

\* The keys of the inner instructions that decode to a record.
IndexedKeys(sets) ==
    UNION { { InnerKey(sets[k].index, i - 1) :
                i \in { i \in DOMAIN sets[k].instructions :
                          IsSome(Decoded(sets[k].instructions[i])) } } :
            k \in DOMAIN sets }

\* C27: get_transfer_actions stores the record of inner instruction i of the
\* set with index o under the key "<program ID of outer instruction o>:o-i"
\* with idx "o-i"; the records under one key are in the input order; an outer
\* instruction of a system program has no key of its own and no record;
\* is_fee is Some(true) exactly on the records whose destination or
\* destination owner is a fee recipient.
C27_TransferIndexKeying ==
    pc = "get_transfer_actions" =>
        /\ DOMAIN result = IndexedKeys(tx.inner_instructions[1])
        /\ \A key \in DOMAIN result :
              result[key] = IndexedUnder(tx.inner_instructions[1], key)

\* A Token-program outer instruction that decodes to a transfer, and a key
\* with two records: one tagged through its destination owner, one plain.
C27_Witness ==
    /\ pc = "get_transfer_actions"
    /\ \E o \in DOMAIN tx.instructions :
          /\ OuterProgram(o - 1) \in SYSTEM_PROGRAMS
          /\ IsSome(Decoded(tx.instructions[o]))
    /\ \E key \in DOMAIN result :
          /\ Len(result[key]) = 2
          /\ result[key][1].is_fee = Some(TRUE)
          /\ result[key][1].info.destination \notin FEE_ACCOUNTS
          /\ result[key][2].is_fee = None

(***************************************************************************)
(* The state machine of classification: InstructionClassifier::new and     *)
(* get_all_program_ids on transactions whose instructions belong to a DEX  *)
(* program, a system program, a skip-list program and to no program        *)
(***************************************************************************)
\* Most outer instructions, and most instructions of the inner set.
MaxClassified == 2

\* The account keys of the classified transactions: a skip-list program is
\* the last.
ClassifyKeys == TxAccountKeys \o << CHOOSE id \in SKIP_PROGRAM_IDS : TRUE >>

\* The last one names a program position behind the account keys.
ClassifiedChoices ==
    { RaySwapIx,
      RawInstruction(COMPUTE_BUDGET_ID, <<>>, <<2, 1>>),
      [ program_id_index |-> Len(TxAccountKeys), account_key_indexes |-> <<0>>, data |-> <<1>> ],
      [ program_id_index |-> Len(ClassifyKeys), account_key_indexes |-> <<0>>, data |-> <<7>> ] }

ClassifyTxs ==
    { [ slot |-> 77, block_time |-> Some(1700), version |-> None, signatures |-> <<"Sig1">>,
        account_keys |-> ClassifyKeys, instructions |-> outer,
        inner_instructions |-> inner, meta |-> Some(TxMeta(FALSE)) ] :
      outer \in SeqsUpTo(ClassifiedChoices, MaxClassified),
      inner \in {None} \cup
                { Some(<< [index |-> o, instructions |-> set] >>) :
                    o \in {0, 1}, set \in SeqsUpTo(ClassifiedChoices, MaxClassified) } }

InitClassify ==
    /\ tx \in ClassifyTxs
    /\ config = ConfigDefault
    /\ key_order = <<>>
    /\ pc = "ready"
    /\ result = None
    /\ trades_in = <<>>
    /\ dex_args = <<None, None>>
    /\ args = None

\* InstructionClassifier::new(&adapter) and get_all_program_ids() on it; the
\* HashMap enumerates its keys in some order.
ClassifyInstructions ==
    /\ pc = "ready"
    /\ \E order \in Orders(MapKeys(tx)) :
          LET Classifier(instruction_map) ==
                  [ instruction_map |-> instruction_map,
                    all_program_ids |-> get_all_program_ids(instruction_map, order) ]
          IN /\ key_order' = order
             /\ result' = Classifier(classify_instructions(NewAdapter(tx)))
    /\ pc' = "classified"
    /\ UNCHANGED <<tx, config, trades_in, dex_args, args>>

NextClassify == ClassifyInstructions

SpecClassify == InitClassify /\ [][NextClassify]_vars

(***************************************************************************)
(* C28                                                                     *)
(***************************************************************************)
\* The program ID an instruction names: "" behind the account keys.
NamedProgram(raw) ==
    IF raw.program_id_index + 1 \in DOMAIN tx.account_keys
    THEN tx.account_keys[raw.program_id_index + 1] ELSE ""

\* Where an instruction stands: its data, its program and its indices.
Standing(raw, outer_index, inner_index) ==
    [ program_id |-> NamedProgram(raw), data |-> raw.data,
      outer_index |-> outer_index, inner_index |-> inner_index ]

RECURSIVE InnerStandings(_)
InnerStandings(sets) ==
    IF sets = <<>> THEN <<>>
    ELSE [ j \in DOMAIN Head(sets).instructions |->
             Standing(Head(sets).instructions[j], Head(sets).index, Some(j - 1)) ]
         \o InnerStandings(Tail(sets))

\* Every instruction of the transaction in the input order: the outer ones,
\* then the inner sets one after the other.
AllStandings ==
    [ p \in DOMAIN tx.instructions |-> Standing(tx.instructions[p], p - 1, None) ]
    \o InnerStandings(UnwrapOr(tx.inner_instructions, <<>>))

\* What the classifier recorded of an instruction.
Recorded(ci) ==
    [ program_id |-> ci.program_id, data |-> ci.data,
      outer_index |-> ci.outer_index, inner_index |-> ci.inner_index ]

\* C28: the classifier's map has one list per non-empty program ID of the
\* transaction; the list of a program is its instructions in the input order,
\* an outer instruction at position p with outer_index p and inner_index
\* None, the instruction at position j of a set with index o with outer_index
\* o and inner_index Some(j); instructions with an empty program ID are in no
\* list; get_all_program_ids returns every key once, but for the system
\* programs and the skip-list programs.
C28_ClassifierRecordsOnce ==
    pc = "classified" =>
        /\ DOMAIN result.instruction_map
              = { s.program_id : s \in SeqRange(AllStandings) } \ {""}
        /\ \A id \in DOMAIN result.instruction_map :
              [ k \in DOMAIN result.instruction_map[id] |->
                  Recorded(result.instruction_map[id][k]) ]
                 = SelectSeq(AllStandings, LAMBDA s : s.program_id = id)
        /\ SeqRange(result.all_program_ids)
              = DOMAIN result.instruction_map \ (SYSTEM_PROGRAMS \cup SKIP_PROGRAM_IDS)
        /\ Cardinality(SeqRange(result.all_program_ids)) = Len(result.all_program_ids)

\* An instruction without a program, a program with an outer and an inner
\* instruction, an excluded program among the keys and a listed one.
C28_Witness ==
    /\ pc = "classified"
    /\ \E s \in SeqRange(AllStandings) : s.program_id = ""
    /\ \E id \in DOMAIN result.instruction_map :
          /\ Len(result.instruction_map[id]) = 2
          /\ result.instruction_map[id][1].inner_index = None
          /\ result.instruction_map[id][2].inner_index = Some(1)
          /\ result.instruction_map[id][2].outer_index = 1
    /\ DOMAIN result.instruction_map \cap (SYSTEM_PROGRAMS \cup SKIP_PROGRAM_IDS) # {}
    /\ result.all_program_ids # <<>>

(***************************************************************************)
(* The state machine of the event decoders over outer and inner            *)
(* instructions: one decoder's process_trades on a transaction whose outer *)
(* instructions and whose inner set hold events of its program             *)
(***************************************************************************)
\* The event instructions of one program: Jupiter route events, Pumpfun
\* trade events, Pumpswap buy and sell events.
EventFamilies ==
    { {JupRouteIx, JupShortIx},
      { RawInstruction(PUMP_FUN.id, <<"User">>,
                       PumpfunTradeData("Mint1", 20, 9, is_buy, "User", 1650)) :
          is_buy \in {0, 1} },
      { RawInstruction(PUMP_SWAP.id, <<"User">>, PumpswapEvent(discriminator, "PoolWsol")) :
          discriminator \in {PUMPSWAP_BUY_EVENT, PUMPSWAP_SELL_EVENT} } }

\* The outer instructions and the inner set hold events of one program.
EventTxsOf(family) ==
    { [ slot |-> 77, block_time |-> Some(1700), version |-> None, signatures |-> <<"Sig1">>,
        account_keys |-> TxAccountKeys, instructions |-> outer,
        inner_instructions |-> inner, meta |-> Some(TxMeta(FALSE)) ] :
      outer \in SeqsUpTo(family, MaxEvents),
      inner \in {None} \cup
                { Some(<< [index |-> o, instructions |-> set] >>) :
                    o \in {0, 1}, set \in SeqsUpTo(family, MaxEvents) } }

EventTxs == UNION { EventTxsOf(family) : family \in EventFamilies }

InitEvents ==
    /\ tx \in EventTxs
    /\ args = [program_id |-> TxAccountKeys[tx.instructions[1].program_id_index + 1]]
    /\ config = ConfigDefault
    /\ key_order = <<>>
    /\ pc = "ready"
    /\ result = None
    /\ trades_in = <<>>
    /\ dex_args = <<None, None>>

NextEvents == DecodeTrades

SpecEvents == InitEvents /\ [][NextEvents]_vars

(***************************************************************************)
(* C29                                                                     *)
(***************************************************************************)
\* C29: the trades one event decoder gets from the instructions of a
\* transaction carry pairwise different idx, so that the deduplication by
\* (idx, signature) removes none of them.
C29_EventIdxDistinct ==
    pc = "process_trades" =>
        /\ \A i, j \in DOMAIN result : i # j => result[i].idx # result[j].idx
        /\ DedupTrades(result) = result

====
